---- MODULE Spec2Model ----
(***************************************************************************)
(* Model of the StashCache/OSDF authorization-artifact generators          *)
(* (src/stashcache.py) over the namespace registry that they import        *)
(* (src/webapp/vos_data.py).                                               *)
(*                                                                         *)
(* Text is modelled structurally: a string artifact is the sequence of its *)
(* newline-terminated lines, and a line is a record of its fields.  The    *)
(* empty string "" is the empty sequence.                                  *)
(***************************************************************************)
EXTENDS Integers, Sequences, FiniteSets, TLC

VARIABLES topology, stashcache_by_vo_name, call, result

vars == <<topology, stashcache_by_vo_name, call, result>>

(***************************************************************************)
(* Program constants                                                       *)
(***************************************************************************)
ANY == "ANY"
ANY_PUBLIC == "ANY_PUBLIC"
XROOTD_CACHE_SERVER == "XRootD cache server"
XROOTD_ORIGIN_SERVER == "XRootD origin server"
LIGO_PATH == "/user/ligo"
None == "None"

(***************************************************************************)
(* Python's str ordering, restricted to the strings the model sorts.       *)
(* StrOrder lists them in ascending (code point) order.                    *)
(***************************************************************************)
StrOrder ==
    << "", "/no-issuers-found", "/osg", "/user/ligo", "False", "True",
       "[Issuer", "base_path", "https://issuer.a", "https://issuer.b",
       "https://scitokens.org/nonexistent", "issuer", "ligo", "map_subject",
       "osg", "restricted_path" >>

Rank(s) == CHOOSE i \in 1..Len(StrOrder) : StrOrder[i] = s

RECURSIVE SeqLess(_, _)
\* lexicographic order on sequences of strings (a proper prefix is smaller)
SeqLess(a, b) ==
    IF b = <<>> THEN FALSE
    ELSE IF a = <<>> THEN TRUE
    ELSE IF Head(a) = Head(b) THEN SeqLess(Tail(a), Tail(b))
    ELSE Rank(Head(a)) < Rank(Head(b))

RECURSIVE sorted(_)
\* sorted(set of strings): the ascending list of its elements
sorted(S) ==
    IF S = {} THEN <<>>
    ELSE LET m == CHOOSE x \in S : \A y \in S : Rank(x) <= Rank(y)
         IN <<m>> \o sorted(S \ {m})

RECURSIVE sorted_blocks(_)
\* sorted(set of rendered blocks), a block being a sequence of strings
sorted_blocks(S) ==
    IF S = {} THEN <<>>
    ELSE LET m == CHOOSE x \in S : \A y \in S : x = y \/ SeqLess(x, y)
         IN <<m>> \o sorted_blocks(S \ {m})

Range(s) == { s[i] : i \in 1..Len(s) }

RECURSIVE Flatten(_)
Flatten(ss) == IF ss = <<>> THEN <<>> ELSE Head(ss) \o Flatten(Tail(ss))

\* the keys of an insertion-ordered dict / the elements of a list, each once,
\* in order of first occurrence
RECURSIVE FirstOccurrences(_)
FirstOccurrences(s) ==
    IF s = <<>> THEN <<>>
    ELSE LET r == FirstOccurrences(SubSeq(s, 1, Len(s) - 1))
             x == s[Len(s)]
         IN IF x \in Range(r) THEN r ELSE Append(r, x)


(***************************************************************************)
(* Python values of the parsed YAML documents, tagged with their type.     *)
(***************************************************************************)
PyNone == [ty |-> "none"]
PyStr(s) == [ty |-> "str", v |-> s]
PyBool(b) == [ty |-> "bool", v |-> b]
PyDict(d) == [ty |-> "dict", v |-> d]
PyInt(n) == [ty |-> "int", v |-> n]

\* Python truthiness (bool(x))
Truthy(pv) ==
    CASE pv.ty = "none" -> FALSE
      [] pv.ty = "str" -> pv.v # ""
      [] pv.ty = "bool" -> pv.v
      [] pv.ty = "dict" -> DOMAIN pv.v # {}
      [] pv.ty = "int" -> pv.v # 0

\* dict.get(key, default)
DictGet(d, key, default) == IF key \in DOMAIN d THEN d[key] ELSE default

\* str.strip() on the strings the model uses
strip(s) ==
    CASE s = " " -> ""
      [] s = " PUBLIC " -> "PUBLIC"
      [] s = " /CN=alice" -> "/CN=alice"
      [] OTHER -> s

(***************************************************************************)
(* AuthMethod and its subclasses (webapp.vos_data)                         *)
(***************************************************************************)
NullAuth == [kind |-> "Null"]
PublicAuth == [kind |-> "Public"]
DNAuth(dn) == [kind |-> "DN", dn |-> dn]
FQANAuth(fqan) == [kind |-> "FQAN", fqan |-> fqan]
SciTokenAuth(issuer, base_path, restricted_path, map_subject) ==
    [kind |-> "SciToken", issuer |-> issuer, base_path |-> base_path,
     restricted_path |-> restricted_path, map_subject |-> map_subject]

\* class attributes
is_public(a) == a.kind = "Public"
used_in_authfile(a) == a.kind \in {"Public", "DN", "FQAN"}
used_in_scitokens_conf(a) == a.kind = "SciToken"

\* webapp.x509.generate_dn_hash: a deterministic, collision-free digest
generate_dn_hash(dn) ==
    CASE dn = "/CN=alice" -> "5a1c0d2e.0"
      [] dn = "/CN=ligo1" -> "9be3f771.0"
      [] dn = "/CN=cache1" -> "c0ffee11.0"
      [] dn = "/CN=origin1" -> "0d15ea5e.0"
      [] OTHER -> "ffffffff.0"

\* whether "from .x509 import generate_dn_hash" succeeded
generate_dn_hash_available == TRUE

\* get_authfile_id(): the identity token as <<type letter, name>>
get_authfile_id(a) ==
    CASE a.kind = "Public" -> <<"u", "*">>
      [] a.kind = "DN" -> <<"u", generate_dn_hash(a.dn)>>
      [] a.kind = "FQAN" -> <<"g", a.fqan>>
      [] OTHER -> <<"", "">>

\* __str__()
Str(a) ==
    CASE a.kind = "Public" -> <<"PUBLIC">>
      [] a.kind = "DN" -> <<"DN: ", a.dn>>
      [] a.kind = "FQAN" -> <<"FQAN: ", a.fqan>>
      [] a.kind = "SciToken" -> <<"SciToken: ", a.issuer, a.base_path, a.restricted_path,
                                  IF a.map_subject THEN "True" ELSE "False">>
      [] OTHER -> <<"<NullAuth object>">>

\* str(bool)
StrBool(b) == IF b THEN "True" ELSE "False"

\* the block with the map_subject line whatever the service
get_scitokens_conf_block_mapped(a, service_name) ==
    IF a.kind # "SciToken" THEN <<>>
    ELSE IF service_name \notin {XROOTD_CACHE_SERVER, XROOTD_ORIGIN_SERVER}
    THEN <<"ValueError">>
    ELSE <<"[Issuer", a.issuer, "issuer", a.issuer, "base_path", a.base_path>>
         \o (IF a.restricted_path # None /\ a.restricted_path # ""
             THEN <<"restricted_path", a.restricted_path>> ELSE <<>>)
         \o <<"map_subject", StrBool(a.map_subject)>>

\* SciTokenAuth.get_scitokens_conf_block(service_name): the lines of the
\* block, each line flattened to <<key, value>>; "ValueError" when it raises
get_scitokens_conf_block(a, service_name) ==
    IF a.kind # "SciToken" THEN <<>>
    ELSE IF service_name \notin {XROOTD_CACHE_SERVER, XROOTD_ORIGIN_SERVER}
    THEN <<"ValueError">>
    ELSE <<"[Issuer", a.issuer, "issuer", a.issuer, "base_path", a.base_path>>
         \o (IF a.restricted_path # None /\ a.restricted_path # ""
             THEN <<"restricted_path", a.restricted_path>> ELSE <<>>)
         \o (IF service_name = XROOTD_ORIGIN_SERVER
             THEN <<"map_subject", StrBool(a.map_subject)>> ELSE <<>>)

(***************************************************************************)
(* parse_authz (webapp.vos_data).  An authz item is                        *)
(*   [form |-> "str", prefix, rest]   a str: prefix is "FQAN:", "DN:" or   *)
(*                                    "" (none of them), rest what follows *)
(*   [form |-> "dict", items]         a dict: items is its (key, value)    *)
(*                                    list in iteration order              *)
(*   [form |-> "other"]               any other type                       *)
(* The result is [method, err] with err = None on success; NoPair is the   *)
(* Python value None returned in place of a pair.                          *)
(***************************************************************************)
Pair(method, err) == [pair |-> TRUE, method |-> method, err |-> err]
NoPair == [pair |-> FALSE, method |-> NullAuth, err |-> None]

_parse_authz_scitokens(attributes) ==
    LET issuer == DictGet(attributes, "Issuer", PyNone)
        base_path == DictGet(attributes, "Base Path", PyNone)
        restricted_path == DictGet(attributes, "Restricted Path", PyNone)
        map_subject == DictGet(attributes, "Map Subject", PyBool(FALSE))
        errors ==
            (IF ~Truthy(issuer) THEN <<"'Issuer' missing or empty">> ELSE <<>>)
            \o (IF ~Truthy(base_path) THEN <<"'Base Path' missing or empty">> ELSE <<>>)
            \o (IF Truthy(restricted_path) /\ restricted_path.ty # "str"
                THEN <<"'Restricted Path' not a string">> ELSE <<>>)
            \o (IF map_subject.ty # "bool"
                THEN <<"'Map Subject' not a boolean">> ELSE <<>>)
    IN IF errors # <<>>
       THEN Pair(NullAuth, "Invalid SciTokens auth")
       ELSE Pair(SciTokenAuth(issuer.v, base_path.v,
                              IF restricted_path.ty = "str" THEN restricted_path.v ELSE None,
                              map_subject.v),
                 None)

_parse_authz_dict(authz) ==
    IF authz.items = <<>> THEN NoPair   \* the loop body never runs
    ELSE LET auth_type == authz.items[1][1]
             attributes == authz.items[1][2]
         IN CASE auth_type = "SciTokens" ->
                    IF attributes.ty # "dict" \/ ~Truthy(attributes)
                    THEN Pair(NullAuth, "Invalid SciTokens auth: no attributes")
                    ELSE _parse_authz_scitokens(attributes.v)
              [] auth_type = "FQAN" ->
                    IF ~Truthy(attributes)
                    THEN Pair(NullAuth, "Invalid FQAN auth: FQAN missing or empty")
                    ELSE Pair(FQANAuth(attributes.v), None)
              [] auth_type = "DN" ->
                    IF ~generate_dn_hash_available
                    THEN Pair(NullAuth, "'asn1' library unavailable")
                    ELSE IF ~Truthy(attributes)
                    THEN Pair(NullAuth, "Invalid DN auth: DN missing or empty")
                    ELSE Pair(DNAuth(attributes.v), None)
              [] OTHER -> Pair(NullAuth, "Unknown auth type")

_parse_authz_str(authz) ==
    IF authz.prefix = "FQAN:"
    THEN IF strip(authz.rest) = ""
         THEN Pair(NullAuth, "Invalid FQAN auth: FQAN missing or empty")
         ELSE Pair(FQANAuth(strip(authz.rest)), None)
    ELSE IF authz.prefix = "DN:"
    THEN IF ~generate_dn_hash_available
         THEN Pair(NullAuth, "'asn1' library unavailable")
         ELSE IF strip(authz.rest) = ""
         THEN Pair(NullAuth, "Invalid DN auth: DN missing or empty")
         ELSE Pair(DNAuth(strip(authz.rest)), None)
    ELSE IF strip(authz.rest) = "PUBLIC"
    THEN Pair(PublicAuth, None)
    ELSE Pair(NullAuth, "Unknown authz list entry")

parse_authz(authz) ==
    IF authz.form = "dict" THEN _parse_authz_dict(authz)
    ELSE IF authz.form = "str" THEN _parse_authz_str(authz)
    ELSE Pair(NullAuth, "Unknown authz list entry")

\* the str f"DN:{dn}"
DnString(dn) == [form |-> "str", prefix |-> "DN:", rest |-> dn]


(***************************************************************************)
(* Namespace and StashCache (webapp.vos_data, the module stashcache.py     *)
(* imports).  A namespaces OrderedDict is the sequence of its values in    *)
(* insertion order, keyed by .path.                                        *)
(***************************************************************************)
Namespace(path, vo_name, allowed_origins, allowed_caches, authz_list, writeback, dirlist) ==
    [path |-> path, vo_name |-> vo_name, allowed_origins |-> allowed_origins,
     allowed_caches |-> allowed_caches, authz_list |-> authz_list,
     writeback |-> writeback, dirlist |-> dirlist]

\* an element of StashCache.errors: what the formatted message mentions
\* (idx is -1, and path or orig_vo_name None, when it does not mention one)
ErrorString(idx, path, what, orig_vo_name) ==
    [idx |-> idx, path |-> path, what |-> what, orig_vo_name |-> orig_vo_name]

\* Namespace.is_public(): truthiness of
\* "self.authz_list and self.authz_list[0].is_public"
Namespace_is_public(ns) == ns.authz_list # <<>> /\ is_public(ns.authz_list[1])

\* StashCache.parse_authz_list: [authz_list, errors, raised]; raised when
\* unpacking the result of parse_authz fails (it returned None)
RECURSIVE parse_authz_list_from(_, _, _, _)
parse_authz_list_from(path, unparsed_authz_list, authz_list, errors) ==
    IF unparsed_authz_list = <<>>
    THEN [authz_list |-> authz_list, errors |-> errors, raised |-> FALSE]
    ELSE LET parsed == parse_authz(Head(unparsed_authz_list))
         IN IF ~parsed.pair
            THEN [authz_list |-> authz_list, errors |-> errors, raised |-> TRUE]
            ELSE IF parsed.err # None
            THEN parse_authz_list_from(path, Tail(unparsed_authz_list), authz_list,
                                       errors \cup {ErrorString(-1, path, parsed.err, None)})
            ELSE IF is_public(parsed.method)
            THEN [authz_list |-> <<parsed.method>>, errors |-> errors, raised |-> FALSE]
            ELSE parse_authz_list_from(path, Tail(unparsed_authz_list),
                                       Append(authz_list, parsed.method), errors)

\* as parse_authz_list, keeping every parsed entry (a Public one too) in place
parse_authz_list_keep_all(path, unparsed_authz_list) ==
    LET parsed == [k \in 1..Len(unparsed_authz_list) |-> parse_authz(unparsed_authz_list[k])]
        IsOk(p) == p.pair /\ p.err = None
        ok == SelectSeq(parsed, IsOk)
    IN [authz_list |-> [k \in 1..Len(ok) |-> ok[k].method],
        errors |-> { ErrorString(-1, path, parsed[k].err, None) :
                        k \in { j \in 1..Len(parsed) : parsed[j].pair /\ parsed[j].err # None } },
        raised |-> \E k \in 1..Len(parsed) : ~parsed[k].pair]

parse_authz_list(path, unparsed_authz_list) ==
    parse_authz_list_from(path, unparsed_authz_list, <<>>, {})

\* no key at all
PathsOf_none(namespaces) == {}

PathsOf(namespaces) == { namespaces[k].path : k \in 1..Len(namespaces) }

NamespaceAt(namespaces, path) ==
    namespaces[CHOOSE k \in 1..Len(namespaces) : namespaces[k].path = path]

\* StashCache.load_new_yaml: the loop over yaml_data["Namespaces"] from item
\* idx on; obj is the StashCache under construction
RECURSIVE load_new_yaml_from(_, _, _)
load_new_yaml_from(obj, Namespaces, idx) ==
    IF idx > Len(Namespaces) \/ obj.raised THEN obj
    ELSE LET ns_data == Namespaces[idx]
         IN IF "Path" \notin DOMAIN ns_data
            THEN load_new_yaml_from(
                     [obj EXCEPT !.errors = @ \cup {ErrorString(idx - 1, None, "No Path", None)}],
                     Namespaces, idx + 1)
            ELSE IF ns_data.Path \in PathsOf(obj.namespaces)
            THEN load_new_yaml_from(
                     [obj EXCEPT !.errors = @ \cup
                         {ErrorString(idx - 1, ns_data.Path, "Redefining",
                                      NamespaceAt(obj.namespaces, ns_data.Path).vo_name)}],
                     Namespaces, idx + 1)
            ELSE LET parsed == parse_authz_list(ns_data.Path,
                                                DictGet(ns_data, "Authorizations", <<>>))
                 IN IF parsed.raised
                    THEN [obj EXCEPT !.errors = @ \cup parsed.errors, !.raised = TRUE]
                    ELSE load_new_yaml_from(
                             [obj EXCEPT
                                 !.errors = @ \cup parsed.errors,
                                 !.namespaces = Append(@,
                                     Namespace(ns_data.Path, obj.vo_name,
                                               DictGet(ns_data, "AllowedOrigins", <<>>),
                                               DictGet(ns_data, "AllowedCaches", <<>>),
                                               parsed.authz_list,
                                               DictGet(ns_data, "Writeback", None),
                                               DictGet(ns_data, "DirList", None)))],
                             Namespaces, idx + 1)

\* StashCache.__init__ / load_yaml for a list-shape document (yaml_data is
\* the value of its "Namespaces" key, or <<>> when the key is null)
StashCache(vo_name, yaml_data) ==
    load_new_yaml_from([vo_name |-> vo_name, namespaces |-> <<>>, errors |-> {},
                        raised |-> FALSE],
                       yaml_data, 1)

\* VOsData.add_vo on the dict stashcache_by_vo_name (a sequence of
\* StashCache objects in insertion order, keyed by .vo_name): the new dict
add_vo(by_vo_name, vo_name, stashcache_data) ==
    IF stashcache_data = <<>> THEN by_vo_name
    ELSE LET stashcache_obj == StashCache(vo_name, stashcache_data)
         IN IF stashcache_obj.errors # {} THEN by_vo_name
            ELSE IF \E i \in 1..Len(by_vo_name) : by_vo_name[i].vo_name = vo_name
            THEN [i \in 1..Len(by_vo_name) |->
                     IF by_vo_name[i].vo_name = vo_name THEN stashcache_obj
                     ELSE by_vo_name[i]]
            ELSE Append(by_vo_name, stashcache_obj)

(***************************************************************************)
(* webapp.data_federation: the same classes as the module of that name     *)
(* defines them (prefix df_ where they differ from webapp.vos_data).       *)
(***************************************************************************)
\* Namespace.is_public(): "any(x for x in self.authz_list if x.is_public)"
df_Namespace_is_public(ns) ==
    \E k \in 1..Len(ns.authz_list) : is_public(ns.authz_list[k])

df_Namespace(path, vo_name, allowed_origins, allowed_caches, authz_list, writeback, dirlist, credential_generation) ==
    [path |-> path, vo_name |-> vo_name, allowed_origins |-> allowed_origins,
     allowed_caches |-> allowed_caches, authz_list |-> authz_list,
     writeback |-> writeback, dirlist |-> dirlist,
     credential_generation |-> credential_generation]

df__parse_authz_scitokens(attributes) ==
    LET issuer == DictGet(attributes, "Issuer", PyNone)
        base_path == DictGet(attributes, "BasePath", DictGet(attributes, "Base Path", PyNone))
        restricted_path == DictGet(attributes, "RestrictedPath",
                                   DictGet(attributes, "Restricted Path", PyNone))
        map_subject == DictGet(attributes, "MapSubject",
                               DictGet(attributes, "Map Subject", PyBool(FALSE)))
        errors ==
            (IF ~Truthy(issuer) THEN <<"'Issuer' missing or empty">> ELSE <<>>)
            \o (IF ~Truthy(base_path) THEN <<"'BasePath' missing or empty">> ELSE <<>>)
            \o (IF Truthy(restricted_path) /\ restricted_path.ty # "str"
                THEN <<"'RestrictedPath' not a string">> ELSE <<>>)
            \o (IF map_subject.ty # "bool"
                THEN <<"'MapSubject' not a boolean">> ELSE <<>>)
    IN IF errors # <<>>
       THEN Pair(NullAuth, "Invalid SciTokens auth")
       ELSE Pair(SciTokenAuth(issuer.v, base_path.v,
                              IF restricted_path.ty = "str" THEN restricted_path.v ELSE None,
                              map_subject.v),
                 None)

df__parse_authz_dict(authz) ==
    IF authz.items = <<>> THEN NoPair
    ELSE LET auth_type == authz.items[1][1]
             attributes == authz.items[1][2]
         IN IF auth_type = "SciTokens"
            THEN IF attributes.ty # "dict" \/ ~Truthy(attributes)
                 THEN Pair(NullAuth, "Invalid SciTokens auth: no attributes")
                 ELSE df__parse_authz_scitokens(attributes.v)
            ELSE _parse_authz_dict(authz)

df_parse_authz(authz) ==
    IF authz.form = "dict" THEN df__parse_authz_dict(authz)
    ELSE IF authz.form = "str" THEN _parse_authz_str(authz)
    ELSE Pair(NullAuth, "Unknown authz list entry")

\* StashCache.parse_authz_list of data_federation: every parsed entry is kept
RECURSIVE df_parse_authz_list_from(_, _, _, _)
df_parse_authz_list_from(path, unparsed_authz_list, authz_list, errors) ==
    IF unparsed_authz_list = <<>>
    THEN [authz_list |-> authz_list, errors |-> errors, raised |-> FALSE]
    ELSE LET parsed == df_parse_authz(Head(unparsed_authz_list))
         IN IF ~parsed.pair
            THEN [authz_list |-> authz_list, errors |-> errors, raised |-> TRUE]
            ELSE IF parsed.err # None
            THEN df_parse_authz_list_from(path, Tail(unparsed_authz_list), authz_list,
                                          errors \cup {ErrorString(-1, path, parsed.err, None)})
            ELSE df_parse_authz_list_from(path, Tail(unparsed_authz_list),
                                          Append(authz_list, parsed.method), errors)

df_parse_authz_list(path, unparsed_authz_list) ==
    df_parse_authz_list_from(path, unparsed_authz_list, <<>>, {})

\* urllib.parse.urlparse on the issuers the model uses: [scheme, netloc]
urlparse(url) ==
    CASE url = "https://issuer.a" -> [scheme |-> "https", netloc |-> "issuer.a"]
      [] url = "https://issuer.b" -> [scheme |-> "https", netloc |-> "issuer.b"]
      [] url = "http://issuer.a" -> [scheme |-> "http", netloc |-> "issuer.a"]
      [] OTHER -> [scheme |-> "", netloc |-> ""]

STRATEGY_VAULT == "Vault"
STRATEGY_OAUTH2 == "OAuth2"
STRATEGIES == { STRATEGY_OAUTH2, STRATEGY_VAULT }

\* credential_generation = None
NoCredentialGeneration == [strategy |-> None]

\* CredentialGeneration(strategy=cg.get("Strategy", ""), ...)
CredentialGeneration(cg) ==
    [strategy |-> DictGet(cg, "Strategy", ""),
     issuer |-> DictGet(cg, "Issuer", ""),
     max_scope_depth |-> DictGet(cg, "MaxScopeDepth", PyNone),
     vault_server |-> DictGet(cg, "VaultServer", None),
     base_path |-> DictGet(cg, "BasePath", None),
     vault_issuer |-> DictGet(cg, "VaultIssuer", None)]

\* validate() without the VaultServer block
validate_without_vault_server(self) ==
    (IF self.strategy \notin STRATEGIES THEN {"invalid Strategy"} ELSE {})
    \cup (IF self.issuer = "" \/ self.issuer = None THEN {"Issuer not specified"}
          ELSE IF urlparse(self.issuer).netloc = "" \/ urlparse(self.issuer).scheme # "https"
          THEN {"Issuer not a valid URL"}
          ELSE {})
    \cup (IF Truthy(self.max_scope_depth) /\ self.max_scope_depth.v < 0
          THEN {"negative MaxScopeDepth"} ELSE {})
    \cup (IF self.vault_issuer # None /\ self.vault_issuer # "" /\ self.strategy # STRATEGY_VAULT
          THEN {"VaultIssuer specified for a non-Vault strategy"} ELSE {})

\* CredentialGeneration.validate(): the set of error strings
validate(self) ==
    (IF self.strategy \notin STRATEGIES THEN {"invalid Strategy"} ELSE {})
    \cup (IF self.issuer = "" \/ self.issuer = None THEN {"Issuer not specified"}
          ELSE IF urlparse(self.issuer).netloc = "" \/ urlparse(self.issuer).scheme # "https"
          THEN {"Issuer not a valid URL"}
          ELSE {})
    \cup (IF Truthy(self.max_scope_depth) /\ self.max_scope_depth.v < 0
          THEN {"negative MaxScopeDepth"} ELSE {})
    \cup (IF self.vault_server # None /\ self.vault_server # ""
          THEN IF self.strategy # STRATEGY_VAULT
               THEN {"VaultServer specified for a non-Vault strategy"} ELSE {}
          ELSE IF self.strategy = STRATEGY_VAULT
               THEN {"VaultServer not specified for a Vault strategy"} ELSE {})
    \cup (IF self.vault_issuer # None /\ self.vault_issuer # "" /\ self.strategy # STRATEGY_VAULT
          THEN {"VaultIssuer specified for a non-Vault strategy"} ELSE {})

\* StashCache.load_new_yaml of data_federation from item idx on; raised
\* names the exception that ended the load (None when it ran to its end)
RECURSIVE df_load_new_yaml_from(_, _, _)
df_load_new_yaml_from(obj, Namespaces, idx) ==
    IF idx > Len(Namespaces) \/ obj.raised # None THEN obj
    ELSE LET ns_data == Namespaces[idx]
         IN IF "Path" \notin DOMAIN ns_data
            THEN df_load_new_yaml_from(
                     [obj EXCEPT !.errors = @ \cup {ErrorString(idx - 1, None, "No Path", None)}],
                     Namespaces, idx + 1)
            ELSE IF ns_data.Path \in PathsOf(obj.namespaces)
            THEN df_load_new_yaml_from(
                     [obj EXCEPT !.errors = @ \cup
                         {ErrorString(idx - 1, ns_data.Path, "Redefining",
                                      NamespaceAt(obj.namespaces, ns_data.Path).vo_name)}],
                     Namespaces, idx + 1)
            ELSE LET parsed == df_parse_authz_list(ns_data.Path,
                                                   DictGet(ns_data, "Authorizations", <<>>))
                     has_cg == "CredentialGeneration" \in DOMAIN ns_data
                     credential_generation ==
                         IF has_cg THEN CredentialGeneration(ns_data.CredentialGeneration)
                         ELSE NoCredentialGeneration
                     cg_errors == IF has_cg THEN validate(credential_generation) ELSE {}
                 IN IF parsed.raised
                    THEN [obj EXCEPT !.errors = @ \cup parsed.errors, !.raised = "TypeError"]
                    \* "self.errors += {...}": a set has no +=
                    ELSE IF cg_errors # {}
                    THEN [obj EXCEPT !.errors = @ \cup parsed.errors, !.raised = "TypeError"]
                    ELSE df_load_new_yaml_from(
                             [obj EXCEPT
                                 !.errors = @ \cup parsed.errors,
                                 !.namespaces = Append(@,
                                     df_Namespace(ns_data.Path, obj.vo_name,
                                                  DictGet(ns_data, "AllowedOrigins", <<>>),
                                                  DictGet(ns_data, "AllowedCaches", <<>>),
                                                  parsed.authz_list,
                                                  DictGet(ns_data, "Writeback", None),
                                                  DictGet(ns_data, "DirList", None),
                                                  credential_generation))],
                             Namespaces, idx + 1)

\* StashCache.__init__ / load_yaml of data_federation for a list-shape document
df_StashCache(vo_name, yaml_data) ==
    df_load_new_yaml_from([vo_name |-> vo_name, namespaces |-> <<>>, errors |-> {},
                           raised |-> None],
                          yaml_data, 1)

(***************************************************************************)
(* Topology and Resource (webapp.topology, consumed).  A Resource is       *)
(* [name, fqdn, service_names, AllowedVOs, DN], the last two being         *)
(* data.get("AllowedVOs", []) and data.get("DN") (None when unset).        *)
(***************************************************************************)
NoResource == [name |-> None]

\* Topology.get_resource_group_list() flattened:
\* "for group in resource_groups for resource in group.resources"
AllResources(topo) == Flatten(topo)

\* Topology.safe_get_resource_by_fqdn: the first Resource with that FQDN
safe_get_resource_by_fqdn(topo, fqdn) ==
    LET rs == AllResources(topo)
        hits == { k \in 1..Len(rs) : rs[k].fqdn = fqdn }
    IN IF hits = {} THEN NoResource
       ELSE rs[CHOOSE k \in hits : \A m \in hits : k <= m]

(***************************************************************************)
(* stashcache.py: resource lookup                                          *)
(***************************************************************************)
_resource_has_cache(resource) == XROOTD_CACHE_SERVER \in resource.service_names

\* as _get_resource_with_service, suppress_errors not being looked at
_get_resource_with_service_raising(fqdn, service_name, topo, suppress_errors) ==
    IF fqdn = None \/ fqdn = ""
    THEN [resource |-> NoResource, raised |-> None]
    ELSE LET resource == safe_get_resource_by_fqdn(topo, fqdn)
         IN IF resource = NoResource
            THEN [resource |-> NoResource, raised |-> "ResourceNotRegistered"]
            ELSE IF service_name \notin resource.service_names
            THEN [resource |-> NoResource, raised |-> "ResourceMissingService"]
            ELSE [resource |-> resource, raised |-> None]

\* _get_resource_with_service: [resource, raised]; raised names the exception
\* that _log_or_raise raises when suppress_errors is false
_get_resource_with_service(fqdn, service_name, topo, suppress_errors) ==
    IF fqdn = None \/ fqdn = ""
    THEN [resource |-> NoResource, raised |-> None]
    ELSE LET resource == safe_get_resource_by_fqdn(topo, fqdn)
         IN IF resource = NoResource
            THEN [resource |-> NoResource,
                  raised |-> IF suppress_errors THEN None ELSE "ResourceNotRegistered"]
            ELSE IF service_name \notin resource.service_names
            THEN [resource |-> NoResource,
                  raised |-> IF suppress_errors THEN None ELSE "ResourceMissingService"]
            ELSE [resource |-> resource, raised |-> None]

_get_cache_resource(fqdn, topo, suppress_errors) ==
    _get_resource_with_service(fqdn, XROOTD_CACHE_SERVER, topo, suppress_errors)

_get_origin_resource(fqdn, topo, suppress_errors) ==
    _get_resource_with_service(fqdn, XROOTD_ORIGIN_SERVER, topo, suppress_errors)

(***************************************************************************)
(* stashcache.py: the policy predicates (as the truthiness of what they    *)
(* return).  NoNamespace and NoResource stand for a None argument.         *)
(***************************************************************************)
NoNamespace == [path |-> None]

\* as resource_allows_namespace, with ANY_PUBLIC admitting every namespace
resource_allows_namespace_any_public(resource, namespace) ==
    LET allowed_vos == Range(resource.AllowedVOs)
    IN IF ANY \in allowed_vos THEN TRUE
       ELSE IF namespace # NoNamespace
       THEN IF ANY_PUBLIC \in allowed_vos THEN TRUE
            ELSE namespace.vo_name \in allowed_vos
       ELSE FALSE

resource_allows_namespace(resource, namespace) ==
    LET allowed_vos == Range(resource.AllowedVOs)
    IN IF ANY \in allowed_vos THEN TRUE
       ELSE IF namespace # NoNamespace
       THEN IF ANY_PUBLIC \in allowed_vos /\ Namespace_is_public(namespace) THEN TRUE
            ELSE namespace.vo_name \in allowed_vos
       ELSE FALSE

\* as namespace_allows_cache_resource does: ANY admits every origin
namespace_allows_origin_resource_any(namespace, origin) ==
    IF ANY \in Range(namespace.allowed_origins) THEN TRUE
    ELSE origin # NoResource /\ origin.name \in Range(namespace.allowed_origins)

namespace_allows_origin_resource(namespace, origin) ==
    origin # NoResource /\ origin.name \in Range(namespace.allowed_origins)

\* as namespace_allows_origin_resource does: by the name only
namespace_allows_cache_resource_named(namespace, cache) ==
    cache # NoResource /\ cache.name \in Range(namespace.allowed_caches)

namespace_allows_cache_resource(namespace, cache) ==
    IF ANY \in Range(namespace.allowed_caches) THEN TRUE
    ELSE cache # NoResource /\ cache.name \in Range(namespace.allowed_caches)

\* as get_supported_caches_for_namespace, asking the namespace only
get_supported_caches_one_sided(namespace, topo) ==
    LET all_caches == SelectSeq(AllResources(topo), _resource_has_cache)
        Supports(cache) == namespace_allows_cache_resource(namespace, cache)
    IN SelectSeq(all_caches, Supports)

get_supported_caches_for_namespace(namespace, topo) ==
    LET all_caches == SelectSeq(AllResources(topo), _resource_has_cache)
        Supports(cache) == /\ namespace_allows_cache_resource(namespace, cache)
                           /\ resource_allows_namespace(cache, namespace)
    IN SelectSeq(all_caches, Supports)


(***************************************************************************)
(* stashcache.py: generate_cache_authfile                                  *)
(*                                                                         *)
(* A generator returns [status, exc, text]: status "return" with the text  *)
(* (a sequence of lines), or status "raise" with the exception's class.    *)
(***************************************************************************)
Return(text) == [status |-> "return", exc |-> None, text |-> text]
Raise(exc) == [status |-> "raise", exc |-> exc, text |-> <<>>]

\* the (VO index, namespace index) pairs in the order of
\* "for stashcache_obj in ....values(): for ... in stashcache_obj.namespaces.items()"
NamespaceOrder(by_vo_name) ==
    Flatten([i \in 1..Len(by_vo_name) |->
                [j \in 1..Len(by_vo_name[i].namespaces) |-> <<i, j>>]])

\* f"{p} rl" for p in sorted(paths), joined: the (path, permission) pairs
paths_acl(paths, perm) ==
    LET ps == sorted(paths) IN [k \in 1..Len(ps) |-> <<ps[k], perm>>]

\* as DirsOf, an insertion replacing the directories of the id (id_to_dir[id] = {dir})
DirsOf_last(inserts, id) ==
    LET last == CHOOSE k \in 1..Len(inserts) :
                    /\ inserts[k].id = id
                    /\ \A m \in 1..Len(inserts) : inserts[m].id = id => m <= k
    IN { inserts[last].dir }

\* id_to_dir / id_to_str after a sequence of insertions
\* [id, dir, str] (id_to_dir[id].add(dir); id_to_str[id] = str)
IdsOf(inserts) == FirstOccurrences([k \in 1..Len(inserts) |-> inserts[k].id])
DirsOf(inserts, id) == { inserts[k].dir : k \in { m \in 1..Len(inserts) : inserts[m].id = id } }
StrOf(inserts, id) ==
    LET last == CHOOSE k \in 1..Len(inserts) :
                    /\ inserts[k].id = id
                    /\ \A m \in 1..Len(inserts) : inserts[m].id = id => m <= k
    IN inserts[last].str

\* the comment line and the identity line of every id, in dict order
IdentityLines(inserts, perm) ==
    LET ids == IdsOf(inserts)
    IN Flatten([k \in 1..Len(ids) |->
           << [line |-> "comment", str |-> StrOf(inserts, ids[k])],
              [line |-> "identity", id |-> ids[k],
               acl |-> paths_acl(DirsOf(inserts, ids[k]), perm)] >>])

\* the entries of an authz list that are used in the authfile, as insertions
AuthfileInserts(authz_list, dirname) ==
    LET used == SelectSeq(authz_list, used_in_authfile)
    IN [k \in 1..Len(used) |->
           [id |-> get_authfile_id(used[k]), dir |-> dirname, str |-> Str(used[k])]]

\* fetch_ligo_authz_list_if_needed() on the closure state st
\* (ligo_authz_list and the number of get_ligo_dn_list() calls made)
fetch_ligo_authz_list_if_needed(st, ligo_dn_list) ==
    IF st.ligo_authz_list = <<>>
    THEN [st EXCEPT
             !.ligo_authz_list =
                 [k \in 1..Len(ligo_dn_list) |-> parse_authz(DnString(ligo_dn_list[k])).method],
             !.fetches = @ + 1]
    ELSE st

\* as CacheAuthfileStep, without asking the cache whether it allows the namespace
CacheAuthfileStep_one_sided(st, ij, resource, legacy, ligo_dn_list) ==
    LET namespace == st.by_vo_name[ij[1]].namespaces[ij[2]]
        dirname == namespace.path
    IN IF ~namespace_allows_cache_resource(namespace, resource) THEN st
       ELSE IF Namespace_is_public(namespace) THEN st
       ELSE LET withligo == dirname = LIGO_PATH /\ legacy
                fetched == IF withligo
                           THEN fetch_ligo_authz_list_if_needed(st, ligo_dn_list)
                           ELSE st
                extended_authz_list ==
                    IF withligo THEN namespace.authz_list \o fetched.ligo_authz_list
                    ELSE namespace.authz_list
            IN [fetched EXCEPT
                   !.by_vo_name[ij[1]].namespaces[ij[2]].authz_list = extended_authz_list,
                   !.warnings = IF dirname = LIGO_PATH /\ ~legacy
                                THEN Append(@, [line |-> "comment",
                                                str |-> <<"LIGO DNs unavailable">>])
                                ELSE @,
                   !.inserts = @ \o AuthfileInserts(extended_authz_list, dirname)]

\* one iteration of the namespace loop of generate_cache_authfile
CacheAuthfileStep(st, ij, resource, legacy, ligo_dn_list) ==
    LET namespace == st.by_vo_name[ij[1]].namespaces[ij[2]]
        dirname == namespace.path
    IN IF ~namespace_allows_cache_resource(namespace, resource) THEN st
       ELSE IF resource # NoResource /\ ~resource_allows_namespace(resource, namespace) THEN st
       ELSE IF Namespace_is_public(namespace) THEN st
       ELSE LET withligo == dirname = LIGO_PATH /\ legacy
                fetched == IF withligo
                           THEN fetch_ligo_authz_list_if_needed(st, ligo_dn_list)
                           ELSE st
                \* "extended_authz_list += ..." extends namespace.authz_list in place
                extended_authz_list ==
                    IF withligo THEN namespace.authz_list \o fetched.ligo_authz_list
                    ELSE namespace.authz_list
            IN [fetched EXCEPT
                   !.by_vo_name[ij[1]].namespaces[ij[2]].authz_list = extended_authz_list,
                   !.warnings = IF dirname = LIGO_PATH /\ ~legacy
                                THEN Append(@, [line |-> "comment",
                                                str |-> <<"LIGO DNs unavailable">>])
                                ELSE @,
                   !.inserts = @ \o AuthfileInserts(extended_authz_list, dirname)]

RECURSIVE CacheAuthfileLoop(_, _, _, _, _)
CacheAuthfileLoop(st, order, resource, legacy, ligo_dn_list) ==
    IF order = <<>> THEN st
    ELSE CacheAuthfileLoop(CacheAuthfileStep(st, Head(order), resource, legacy, ligo_dn_list),
                           Tail(order), resource, legacy, ligo_dn_list)

\* generate_cache_authfile: [result, by_vo_name, fetches], by_vo_name being
\* the StashCache objects as the call leaves them
generate_cache_authfile(by_vo_name, topo, ligo_dn_list, fqdn, legacy, suppress_errors) ==
    LET got == _get_cache_resource(fqdn, topo, suppress_errors)
        st0 == [by_vo_name |-> by_vo_name, warnings |-> <<>>, inserts |-> <<>>,
                ligo_authz_list |-> <<>>, fetches |-> 0]
        st == CacheAuthfileLoop(st0, NamespaceOrder(by_vo_name), got.resource,
                                legacy, ligo_dn_list)
    IN IF got.raised # None
       THEN [result |-> Raise(got.raised), by_vo_name |-> by_vo_name, fetches |-> 0]
       ELSE IF fqdn # None /\ fqdn # "" /\ got.resource = NoResource
       THEN [result |-> Return(<<>>), by_vo_name |-> by_vo_name, fetches |-> 0]
       ELSE [result |-> IF st.inserts = <<>> THEN Raise("DataError")
                        ELSE Return(st.warnings \o IdentityLines(st.inserts, "rl")),
             by_vo_name |-> st.by_vo_name, fetches |-> st.fetches]


\* the Namespace objects in iteration order
AllNamespaces(by_vo_name) ==
    LET order == NamespaceOrder(by_vo_name)
    IN [k \in 1..Len(order) |-> by_vo_name[order[k][1]].namespaces[order[k][2]]]

\* as AllNamespaces, each with the key vo_name of the dict it is found under
AllNamespaceItems(by_vo_name) ==
    LET order == NamespaceOrder(by_vo_name)
    IN [k \in 1..Len(order) |->
           [vo_name |-> by_vo_name[order[k][1]].vo_name,
            namespace |-> by_vo_name[order[k][1]].namespaces[order[k][2]]]]

(***************************************************************************)
(* stashcache.py: generate_public_cache_authfile                           *)
(***************************************************************************)
\* the text as it is, the marker of its last line kept
KeepTrailingContinuation(text) == text

\* "if authfile.endswith(" \\\n"): authfile = authfile[:-3] + "\n""
StripTrailingContinuation(text) ==
    IF text # <<>> /\ text[Len(text)].cont
    THEN [text EXCEPT ![Len(text)].cont = FALSE]
    ELSE text

generate_public_cache_authfile(by_vo_name, topo, fqdn, legacy, suppress_errors) ==
    LET got == _get_cache_resource(fqdn, topo, suppress_errors)
        resource == got.resource
        header == [line |-> "identity", id |-> <<"u", "*">>,
                   acl |-> << <<LIGO_PATH, "-rl">> >>, cont |-> TRUE]
        nss == AllNamespaces(by_vo_name)
        Admitted(namespace) ==
            /\ namespace_allows_cache_resource(namespace, resource)
            /\ ~(resource # NoResource /\ ~resource_allows_namespace(resource, namespace))
            /\ Namespace_is_public(namespace)
        public_dirs == { nss[k].path : k \in { m \in 1..Len(nss) : Admitted(nss[m]) } }
        dirs == sorted(public_dirs)
        body == [k \in 1..Len(dirs) |->
                    [line |-> "continuation", acl |-> << <<dirs[k], "rl">> >>, cont |-> TRUE]]
    IN IF got.raised # None THEN Raise(got.raised)
       ELSE IF fqdn # None /\ fqdn # "" /\ resource = NoResource THEN Return(<<>>)
       ELSE IF public_dirs = {} THEN Raise("DataError")
       ELSE Return(StripTrailingContinuation(<<header>> \o body))

(***************************************************************************)
(* stashcache.py: generate_cache_scitokens, generate_origin_scitokens      *)
(***************************************************************************)
dummy_auth == SciTokenAuth("https://scitokens.org/nonexistent", "/no-issuers-found",
                           None, FALSE)

\* the list as collected, no dummy entry appended
keep_if_empty(authz_list) == authz_list

\* "if not cache_authz_list: cache_authz_list.append(dummy_auth)"
append_dummy_if_empty(authz_list) ==
    IF authz_list = <<>> THEN <<dummy_auth>> ELSE authz_list

\* as ScitokensText, one block per entry in the order collected and the VOs
\* in descending order
ScitokensText_as_collected(authz_list, allowed_vos, service_name) ==
    LET vos == sorted(allowed_vos)
    IN << [line |-> "section", name |-> "Global"],
          [line |-> "audience", vos |-> [k \in 1..Len(vos) |-> vos[Len(vos) + 1 - k]]],
          [line |-> "blank"] >>
       \o Flatten([k \in 1..Len(authz_list) |->
              IF k < Len(authz_list)
              THEN << [line |-> "block",
                       block |-> get_scitokens_conf_block(authz_list[k], service_name)],
                      [line |-> "blank"] >>
              ELSE << [line |-> "block",
                       block |-> get_scitokens_conf_block(authz_list[k], service_name)] >>])

\* the template filled in; rstrip() + "\n" drops the blank lines at the end
ScitokensText(authz_list, allowed_vos, service_name) ==
    LET issuer_blocks == { get_scitokens_conf_block(authz_list[k], service_name) :
                              k \in 1..Len(authz_list) }
        blocks == sorted_blocks(issuer_blocks)
    IN << [line |-> "section", name |-> "Global"],
          [line |-> "audience", vos |-> sorted(allowed_vos)],
          [line |-> "blank"] >>
       \o Flatten([k \in 1..Len(blocks) |->
              IF k < Len(blocks)
              THEN << [line |-> "block", block |-> blocks[k]], [line |-> "blank"] >>
              ELSE << [line |-> "block", block |-> blocks[k]] >>])

\* the authz entries collected by the loop, with the VO each was found under;
\* admitted[k] tells whether the loop goes on to the authz list of items[k]
ScitokensEntries(items, admitted) ==
    Flatten([k \in 1..Len(items) |->
        IF admitted[k]
        THEN LET used == SelectSeq(items[k].namespace.authz_list, used_in_scitokens_conf)
             IN [m \in 1..Len(used) |-> [authz |-> used[m], vo_name |-> items[k].vo_name]]
        ELSE <<>>])

generate_cache_scitokens(by_vo_name, topo, fqdn, suppress_errors) ==
    LET got == _get_cache_resource(fqdn, topo, suppress_errors)
        cache_resource == got.resource
        Admitted(namespace) ==
            /\ ~Namespace_is_public(namespace)
            /\ namespace_allows_cache_resource(namespace, cache_resource)
            /\ resource_allows_namespace(cache_resource, namespace)
        items == AllNamespaceItems(by_vo_name)
        entries == ScitokensEntries(items, [k \in 1..Len(items) |-> Admitted(items[k].namespace)])
        allowed_vos == { entries[k].vo_name : k \in 1..Len(entries) }
        collected == [k \in 1..Len(entries) |-> entries[k].authz]
        cache_authz_list == append_dummy_if_empty(collected)
    IN IF got.raised # None THEN Raise(got.raised)
       ELSE IF cache_resource = NoResource THEN Return(<<>>)
       ELSE Return(ScitokensText(cache_authz_list, allowed_vos, XROOTD_CACHE_SERVER))

generate_origin_scitokens(by_vo_name, topo, fqdn, suppress_errors) ==
    LET got == _get_origin_resource(fqdn, topo, suppress_errors)
        origin_resource == got.resource
        Admitted(namespace) ==
            /\ ~Namespace_is_public(namespace)
            /\ namespace_allows_origin_resource(namespace, origin_resource)
            /\ resource_allows_namespace(origin_resource, namespace)
        items == AllNamespaceItems(by_vo_name)
        entries == ScitokensEntries(items, [k \in 1..Len(items) |-> Admitted(items[k].namespace)])
        allowed_vos == { entries[k].vo_name : k \in 1..Len(entries) }
        collected == [k \in 1..Len(entries) |-> entries[k].authz]
        origin_authz_list == append_dummy_if_empty(collected)
    IN IF got.raised # None THEN Raise(got.raised)
       ELSE IF origin_resource = NoResource THEN Return(<<>>)
       ELSE Return(ScitokensText(origin_authz_list, allowed_vos, XROOTD_ORIGIN_SERVER))


(***************************************************************************)
(* stashcache.py: generate_origin_authfile                                 *)
(***************************************************************************)
\* as OriginNamespaceStep, no warning being recorded
OriginNamespaceStep_silent(st, vo_name, namespace, origin_resource, topo) ==
    LET path == namespace.path
        allowed_caches == get_supported_caches_for_namespace(namespace, topo)
        allowed_resources == <<origin_resource>> \o allowed_caches
        with_dn == SelectSeq(allowed_resources, LAMBDA r : r.DN # None /\ r.DN # "")
        authz_list == [k \in 1..Len(with_dn) |-> DNAuth(with_dn[k].DN)]
    IN [st EXCEPT !.inserts = @ \o AuthfileInserts(authz_list, path)]

\* as OriginNamespaceStep, the namespace's own authz list being granted as well
OriginNamespaceStep_own_authz(st, vo_name, namespace, origin_resource, topo) ==
    LET path == namespace.path
        allowed_caches == get_supported_caches_for_namespace(namespace, topo)
        allowed_resources == <<origin_resource>> \o allowed_caches
        no_cache_warning ==
            IF allowed_caches = <<>>
            THEN << [line |-> "comment",
                     str |-> <<"WARNING: No working cache / namespace combinations found for",
                               path>>] >>
            ELSE <<>>
        dn_warnings ==
            Flatten([k \in 1..Len(allowed_resources) |->
                IF allowed_resources[k].DN # None /\ allowed_resources[k].DN # ""
                THEN <<>>
                ELSE << [line |-> "comment",
                         str |-> <<"WARNING: Resource was skipped because the resource does not provide a DN.",
                                   allowed_resources[k].name, vo_name, path>>] >>])
        with_dn == SelectSeq(allowed_resources, LAMBDA r : r.DN # None /\ r.DN # "")
        authz_list == [k \in 1..Len(with_dn) |-> DNAuth(with_dn[k].DN)] \o namespace.authz_list
    IN [st EXCEPT !.warnings = @ \o no_cache_warning \o dn_warnings,
                  !.inserts = @ \o AuthfileInserts(authz_list, path)]

\* the body of the namespace loop for one admitted non-public namespace:
\* the warnings it appends and the insertions it makes
OriginNamespaceStep(st, vo_name, namespace, origin_resource, topo) ==
    LET path == namespace.path
        allowed_caches == get_supported_caches_for_namespace(namespace, topo)
        allowed_resources == <<origin_resource>> \o allowed_caches
        no_cache_warning ==
            IF allowed_caches = <<>>
            THEN << [line |-> "comment",
                     str |-> <<"WARNING: No working cache / namespace combinations found for",
                               path>>] >>
            ELSE <<>>
        dn_warnings ==
            Flatten([k \in 1..Len(allowed_resources) |->
                IF allowed_resources[k].DN # None /\ allowed_resources[k].DN # ""
                THEN <<>>
                ELSE << [line |-> "comment",
                         str |-> <<"WARNING: Resource was skipped because the resource does not provide a DN.",
                                   allowed_resources[k].name, vo_name, path>>] >>])
        with_dn == SelectSeq(allowed_resources, LAMBDA r : r.DN # None /\ r.DN # "")
        authz_list == [k \in 1..Len(with_dn) |-> DNAuth(with_dn[k].DN)]
    IN [st EXCEPT !.warnings = @ \o no_cache_warning \o dn_warnings,
                  !.inserts = @ \o AuthfileInserts(authz_list, path)]

\* as OriginAuthfileStep, public_origin not being looked at
OriginAuthfileStep_no_skip(st, item, origin_resource, topo, public_origin) ==
    LET namespace == item.namespace
    IN IF ~namespace_allows_origin_resource(namespace, origin_resource) THEN st
       ELSE IF ~resource_allows_namespace(origin_resource, namespace) THEN st
       ELSE IF Namespace_is_public(namespace)
       THEN [st EXCEPT !.public_paths = @ \cup {namespace.path}]
       ELSE OriginNamespaceStep(st, item.vo_name, namespace, origin_resource, topo)

\* one iteration of the namespace loop of generate_origin_authfile
OriginAuthfileStep(st, item, origin_resource, topo, public_origin) ==
    LET namespace == item.namespace
    IN IF ~namespace_allows_origin_resource(namespace, origin_resource) THEN st
       ELSE IF ~resource_allows_namespace(origin_resource, namespace) THEN st
       ELSE IF Namespace_is_public(namespace)
       THEN [st EXCEPT !.public_paths = @ \cup {namespace.path}]
       ELSE IF public_origin THEN st
       ELSE OriginNamespaceStep(st, item.vo_name, namespace, origin_resource, topo)

RECURSIVE OriginAuthfileLoop(_, _, _, _, _)
OriginAuthfileLoop(st, items, origin_resource, topo, public_origin) ==
    IF items = <<>> THEN st
    ELSE OriginAuthfileLoop(OriginAuthfileStep(st, Head(items), origin_resource, topo,
                                               public_origin),
                            Tail(items), origin_resource, topo, public_origin)

\* as public_paths_lines, public_origin not being looked at
public_paths_lines_always(public_origin, public_paths) ==
    IF public_paths # {}
    THEN << [line |-> "blank"],
            [line |-> "identity", id |-> <<"u", "*">>,
             acl |-> paths_acl(public_paths, "lr")] >>
    ELSE <<>>

\* "Public paths must be at the end": the lines appended for them
public_paths_lines(public_origin, public_paths) ==
    IF public_origin /\ public_paths # {}
    THEN << [line |-> "blank"],
            [line |-> "identity", id |-> <<"u", "*">>,
             acl |-> paths_acl(public_paths, "lr")] >>
    ELSE <<>>

\* as generate_origin_authfile, raising whenever no identity was collected
generate_origin_authfile_ids_only(by_vo_name, topo, fqdn, suppress_errors, public_origin) ==
    LET got == _get_origin_resource(fqdn, topo, suppress_errors)
        origin_resource == got.resource
        st == OriginAuthfileLoop([public_paths |-> {}, inserts |-> <<>>, warnings |-> <<>>],
                                 AllNamespaceItems(by_vo_name), origin_resource, topo,
                                 public_origin)
        authfile_lines ==
            st.warnings \o IdentityLines(st.inserts, "lr")
            \o public_paths_lines(public_origin, st.public_paths)
    IN IF got.raised # None THEN Raise(got.raised)
       ELSE IF fqdn # None /\ fqdn # "" /\ origin_resource = NoResource THEN Return(<<>>)
       ELSE IF st.inserts = <<>> THEN Raise("DataError")
       ELSE Return(IF authfile_lines = <<>> THEN << [line |-> "blank"] >> ELSE authfile_lines)

generate_origin_authfile(by_vo_name, topo, fqdn, suppress_errors, public_origin) ==
    LET got == _get_origin_resource(fqdn, topo, suppress_errors)
        origin_resource == got.resource
        st == OriginAuthfileLoop([public_paths |-> {}, inserts |-> <<>>, warnings |-> <<>>],
                                 AllNamespaceItems(by_vo_name), origin_resource, topo,
                                 public_origin)
        authfile_lines ==
            st.warnings \o IdentityLines(st.inserts, "lr")
            \o public_paths_lines(public_origin, st.public_paths)
    IN IF got.raised # None THEN Raise(got.raised)
       ELSE IF fqdn # None /\ fqdn # "" /\ origin_resource = NoResource THEN Return(<<>>)
       ELSE IF st.inserts = <<>> /\ st.public_paths = {} THEN Raise("DataError")
       \* "\n".join([]) + "\n" is one empty line
       ELSE Return(IF authfile_lines = <<>> THEN << [line |-> "blank"] >> ELSE authfile_lines)

(***************************************************************************)
(* stashcache.py: get_namespaces_info                                      *)
(***************************************************************************)
_cache_resource_dict(r) ==
    [endpoint |-> IF r.endpoint_override # None THEN <<r.endpoint_override>>
                  ELSE <<r.fqdn, ":8000">>,
     auth_endpoint |-> IF r.auth_endpoint_override # None THEN <<r.auth_endpoint_override>>
                       ELSE <<r.fqdn, ":8443">>,
     resource |-> r.name]

\* cache_resource_objs: the cache Resources keyed by name, in dict order (a
\* later Resource of the same name replaces the earlier one, in its place)
cache_resource_objs(topo) ==
    LET caches == SelectSeq(AllResources(topo), _resource_has_cache)
        names == FirstOccurrences([k \in 1..Len(caches) |-> caches[k].name])
    IN [n \in 1..Len(names) |->
           caches[CHOOSE k \in 1..Len(caches) :
                     /\ caches[k].name = names[n]
                     /\ \A m \in 1..Len(caches) : caches[m].name = names[n] => m <= k]]

\* as _namespace_dict, asking the namespace only
_namespace_dict_one_sided(ns, topo) ==
    LET objs == cache_resource_objs(topo)
        Qualifies(c) == namespace_allows_cache_resource(ns, c)
        qualifying == SelectSeq(objs, Qualifies)
    IN [path |-> ns.path,
        readhttps |-> ~Namespace_is_public(ns),
        usetokenonread |-> \E k \in 1..Len(ns.authz_list) : ns.authz_list[k].kind = "SciToken",
        writebackhost |-> ns.writeback,
        dirlisthost |-> ns.dirlist,
        caches |-> [k \in 1..Len(qualifying) |-> _cache_resource_dict(qualifying[k])]]

_namespace_dict(ns, topo) ==
    LET objs == cache_resource_objs(topo)
        Qualifies(c) == /\ resource_allows_namespace(c, ns)
                        /\ namespace_allows_cache_resource(ns, c)
        qualifying == SelectSeq(objs, Qualifies)
    IN [path |-> ns.path,
        readhttps |-> ~Namespace_is_public(ns),
        usetokenonread |-> \E k \in 1..Len(ns.authz_list) : ns.authz_list[k].kind = "SciToken",
        writebackhost |-> ns.writeback,
        dirlisthost |-> ns.dirlist,
        caches |-> [k \in 1..Len(qualifying) |-> _cache_resource_dict(qualifying[k])]]

get_namespaces_info(by_vo_name, topo) ==
    LET objs == cache_resource_objs(topo)
        nss == AllNamespaces(by_vo_name)
    IN [status |-> "return", exc |-> None,
        text |-> <<>>,
        caches |-> [k \in 1..Len(objs) |-> _cache_resource_dict(objs[k])],
        namespaces |-> [k \in 1..Len(nss) |-> _namespace_dict(nss[k], topo)]]


(***************************************************************************)
(* Inputs: the registered resources, the per-VO StashCache documents, the  *)
(* LIGO DN lists the LDAP lookup may return, and the request parameters.   *)
(***************************************************************************)
\* cap on the length of a namespace's authz_list (the LIGO extension grows it)
MaxAuthzLen == 3

Resource(name, fqdn, service_names, AllowedVOs, DN) ==
    [name |-> name, fqdn |-> fqdn, service_names |-> service_names,
     AllowedVOs |-> AllowedVOs, DN |-> DN,
     endpoint_override |-> None, auth_endpoint_override |-> None]

\* two resource groups: (cache1, origin1) and (cache2)
Topology(cache1_vos, origin1_vos, origin1_dn) ==
    << << Resource("cache1", "cache1.org", {XROOTD_CACHE_SERVER}, cache1_vos, "/CN=cache1"),
          Resource("origin1", "origin1.org", {XROOTD_ORIGIN_SERVER}, origin1_vos, origin1_dn) >>,
       << Resource("cache2", "cache2.org", {XROOTD_CACHE_SERVER}, <<ANY_PUBLIC, "ligo">>, None) >> >>

CacheAllowedVOs == { <<ANY>>, <<"osg">>, <<ANY_PUBLIC>>, <<>> }
OriginAllowedVOs == { <<ANY>>, <<ANY_PUBLIC, "osg">>, <<"ligo">> }
OriginDNs == { "/CN=origin1", None }

Topologies ==
    { Topology(<<ANY>>, <<ANY>>, "/CN=origin1"),
      Topology(<<"osg">>, <<ANY_PUBLIC, "osg">>, None) }

\* the topologies the cache generators are checked on
CacheTopologies == { Topology(c, <<ANY>>, "/CN=origin1") : c \in CacheAllowedVOs }

\* the topologies the origin generators are checked on
OriginTopologies ==
    { Topology(c, o, dn) : c \in { <<ANY>>, <<"osg">> }, o \in OriginAllowedVOs,
                           dn \in OriginDNs }

Fqdns == { None, "cache1.org", "cache2.org", "origin1.org", "nowhere.org" }

LigoDnLists == { <<>>, <<"/CN=ligo1">> }

VONames == { "ligo", "osg" }

\* authz items as they appear in the YAML
PUBLIC == [form |-> "str", prefix |-> "", rest |-> "PUBLIC"]
DN_alice == [form |-> "str", prefix |-> "DN:", rest |-> " /CN=alice"]
FQAN_osg == [form |-> "dict", items |-> << <<"FQAN", PyStr("/osg/Role=user")>> >>]
SciTokens(attributes) ==
    [form |-> "dict", items |-> << <<"SciTokens", PyDict(attributes)>> >>]
\* issuer b, listed before issuer a; S_b_mapped differs from S_b in Map Subject only
S_b == SciTokens(("Issuer" :> PyStr("https://issuer.b")) @@ ("Base Path" :> PyStr("/osg")))
S_b_mapped == SciTokens(("Issuer" :> PyStr("https://issuer.b")) @@ ("Base Path" :> PyStr("/osg"))
                        @@ ("Map Subject" :> PyBool(TRUE)))
S_a == SciTokens(("Issuer" :> PyStr("https://issuer.a")) @@ ("Base Path" :> PyStr("/osg"))
                 @@ ("Restricted Path" :> PyStr("/user/ligo")))

AuthorizationsChoices ==
    { <<PUBLIC>>,
      <<FQAN_osg, DN_alice>>,
      <<S_b, DN_alice>>,
      <<S_b_mapped, S_a>> }

\* (AllowedOrigins, AllowedCaches) of a declaration
PolicyChoices ==
    { << <<"origin1">>, <<ANY>> >>,
      << <<"origin1">>, <<"cache1">> >>,
      << <<>>, <<"cache2">> >> }

NamespaceData(path, policy, authorizations) ==
    [Path |-> path, AllowedOrigins |-> policy[1], AllowedCaches |-> policy[2],
     Authorizations |-> authorizations]

\* documents declaring one namespace at path
SingleDocs(path) ==
    { << NamespaceData(path, policy, az) >> :
        policy \in PolicyChoices, az \in AuthorizationsChoices }

\* documents declaring /user/ligo and then /osg
PairDocs ==
    { << NamespaceData(LIGO_PATH, << <<"origin1">>, <<ANY>> >>, az1),
         NamespaceData("/osg", << <<"origin1">>, <<ANY>> >>, az2) >> :
        az1 \in { <<FQAN_osg, DN_alice>>, <<S_b, DN_alice>> },
        az2 \in { <<PUBLIC>>, <<FQAN_osg, DN_alice>>, <<S_b_mapped, S_a>> } }

\* documents that the loader rejects (an unparsable entry; a repeated path)
BadDocs ==
    { << NamespaceData("/osg", << <<"origin1">>, <<ANY>> >>,
                       << [form |-> "str", prefix |-> "", rest |-> "bogus"] >>) >>,
      << NamespaceData("/osg", << <<"origin1">>, <<ANY>> >>, <<PUBLIC>>),
         NamespaceData("/osg", << <<"origin1">>, <<ANY>> >>, <<PUBLIC>>) >> }

\* documents of a second VO declaring /osg too
CrossDocs ==
    { << NamespaceData("/osg", << <<"origin1">>, <<ANY>> >>, az) >> :
        az \in { <<PUBLIC>>, <<FQAN_osg, DN_alice>> } }

\* the DataFederations/StashCache "Namespaces" lists a VO may carry
StashCacheDocs(vo_name) ==
    IF vo_name = "osg" THEN SingleDocs("/osg") \cup PairDocs \cup BadDocs
    ELSE SingleDocs(LIGO_PATH) \cup CrossDocs

(***************************************************************************)
(* The state machine.  topology and stashcache_by_vo_name are the snapshot *)
(* (GlobalData's Topology and VOsData); call is the last request and       *)
(* result what it returned or raised.                                      *)
(***************************************************************************)
Call(op, fqdn, legacy, suppress_errors, public_origin, ligo_dn_list) ==
    [op |-> op, fqdn |-> fqdn, legacy |-> legacy, suppress_errors |-> suppress_errors,
     public_origin |-> public_origin, ligo_dn_list |-> ligo_dn_list]

NoCall == Call("none", None, FALSE, FALSE, FALSE, <<>>)

\* no request is being served
Ready == call = NoCall

TypeInit ==
    /\ stashcache_by_vo_name = <<>>
    /\ call = NoCall
    /\ result = Return(<<>>)

Init == topology \in Topologies /\ TypeInit
InitCache == topology \in CacheTopologies /\ TypeInit
InitOrigin == topology \in OriginTopologies /\ TypeInit

\* VOsData.add_vo, while the VO data is being loaded
AddVO ==
    \E vo_name \in VONames :
      \E stashcache_data \in StashCacheDocs(vo_name) :
        /\ Ready
        \* the VOs are read in the order osg, ligo
        /\ \A i \in 1..Len(stashcache_by_vo_name) :
               stashcache_by_vo_name[i].vo_name \notin {vo_name, "ligo"}
        /\ ~StashCache(vo_name, stashcache_data).raised
        /\ stashcache_by_vo_name' = add_vo(stashcache_by_vo_name, vo_name, stashcache_data)
        /\ UNCHANGED <<topology, call, result>>

AuthzLenBounded(by_vo_name) ==
    \A i \in 1..Len(by_vo_name) : \A j \in 1..Len(by_vo_name[i].namespaces) :
        Len(by_vo_name[i].namespaces[j].authz_list) <= MaxAuthzLen

GenerateCacheAuthfile ==
    \E fqdn \in Fqdns, legacy \in BOOLEAN, suppress_errors \in BOOLEAN,
       ligo_dn_list \in LigoDnLists :
        LET out == generate_cache_authfile(stashcache_by_vo_name, topology, ligo_dn_list,
                                           fqdn, legacy, suppress_errors)
        IN /\ Ready
           /\ legacy \/ ligo_dn_list = <<>>
           /\ AuthzLenBounded(out.by_vo_name)
           /\ call' = Call("generate_cache_authfile", fqdn, legacy, suppress_errors,
                           FALSE, ligo_dn_list)
           /\ result' = out.result @@ [fetches |-> out.fetches]
           /\ stashcache_by_vo_name' = out.by_vo_name
           /\ UNCHANGED topology

GeneratePublicCacheAuthfile ==
    \E fqdn \in Fqdns, suppress_errors \in BOOLEAN :
        /\ Ready
        /\ call' = Call("generate_public_cache_authfile", fqdn, TRUE, suppress_errors,
                        FALSE, <<>>)
        /\ result' = generate_public_cache_authfile(stashcache_by_vo_name, topology, fqdn,
                                                    TRUE, suppress_errors)
        /\ UNCHANGED <<topology, stashcache_by_vo_name>>

GenerateCacheScitokens ==
    \E fqdn \in Fqdns, suppress_errors \in BOOLEAN :
        /\ Ready
        /\ call' = Call("generate_cache_scitokens", fqdn, FALSE, suppress_errors, FALSE, <<>>)
        /\ result' = generate_cache_scitokens(stashcache_by_vo_name, topology, fqdn,
                                              suppress_errors)
        /\ UNCHANGED <<topology, stashcache_by_vo_name>>

GenerateOriginAuthfile ==
    \E fqdn \in Fqdns, suppress_errors \in BOOLEAN, public_origin \in BOOLEAN :
        /\ Ready
        /\ call' = Call("generate_origin_authfile", fqdn, FALSE, suppress_errors,
                        public_origin, <<>>)
        /\ result' = generate_origin_authfile(stashcache_by_vo_name, topology, fqdn,
                                              suppress_errors, public_origin)
        /\ UNCHANGED <<topology, stashcache_by_vo_name>>

GenerateOriginScitokens ==
    \E fqdn \in Fqdns, suppress_errors \in BOOLEAN :
        /\ Ready
        /\ call' = Call("generate_origin_scitokens", fqdn, FALSE, suppress_errors, FALSE, <<>>)
        /\ result' = generate_origin_scitokens(stashcache_by_vo_name, topology, fqdn,
                                               suppress_errors)
        /\ UNCHANGED <<topology, stashcache_by_vo_name>>

GetNamespacesInfo ==
    /\ Ready
    /\ call' = Call("get_namespaces_info", None, FALSE, FALSE, FALSE, <<>>)
    /\ result' = get_namespaces_info(stashcache_by_vo_name, topology)
    /\ UNCHANGED <<topology, stashcache_by_vo_name>>

\* the caller takes the result; the snapshot stays as the call left it
Respond ==
    /\ ~Ready
    /\ call' = NoCall
    /\ result' = Return(<<>>)
    /\ UNCHANGED <<topology, stashcache_by_vo_name>>

Next ==
    \/ AddVO
    \/ GenerateCacheAuthfile
    \/ GeneratePublicCacheAuthfile
    \/ GenerateCacheScitokens
    \/ GenerateOriginAuthfile
    \/ GenerateOriginScitokens
    \/ GetNamespacesInfo
    \/ Respond

NextCache ==
    \/ AddVO
    \/ GenerateCacheAuthfile
    \/ GeneratePublicCacheAuthfile
    \/ GenerateCacheScitokens
    \/ Respond

NextOrigin ==
    \/ AddVO
    \/ GenerateOriginAuthfile
    \/ GenerateOriginScitokens
    \/ Respond

Spec == Init /\ [][Next]_vars
SpecCache == InitCache /\ [][NextCache]_vars
SpecOrigin == InitOrigin /\ [][NextOrigin]_vars


(***************************************************************************)
(* The policy predicates applied to the resources and namespaces of a      *)
(* snapshot (and to None where the code accepts it).                       *)
(***************************************************************************)
PolicyTopologies ==
    { Topology(c, o, "/CN=origin1") :
        c \in CacheAllowedVOs \cup { <<"ligo", ANY_PUBLIC>> },
        o \in OriginAllowedVOs }

InitPolicy == topology \in PolicyTopologies /\ TypeInit

\* a cache that no resource group of the topologies holds
UnregisteredCache ==
    Resource("cache9", "cache9.org", {XROOTD_CACHE_SERVER}, <<ANY>>, "/CN=cache9")

PolicyCall(op, resource, namespace) ==
    [op |-> op, resource |-> resource, namespace |-> namespace]

Value(v) == [status |-> "return", exc |-> None, value |-> v]

CallGetSupportedCaches ==
    \E namespace \in Range(AllNamespaces(stashcache_by_vo_name)) :
        /\ Ready
        /\ call' = PolicyCall("get_supported_caches_for_namespace", NoResource, namespace)
        /\ result' = Value(get_supported_caches_for_namespace(namespace, topology))
        /\ UNCHANGED <<topology, stashcache_by_vo_name>>

CallResourceAllowsNamespace ==
    \E resource \in Range(AllResources(topology)),
       namespace \in Range(AllNamespaces(stashcache_by_vo_name)) \cup {NoNamespace} :
        /\ Ready
        /\ call' = PolicyCall("resource_allows_namespace", resource, namespace)
        /\ result' = Value(resource_allows_namespace(resource, namespace))
        /\ UNCHANGED <<topology, stashcache_by_vo_name>>

NextPolicy ==
    \/ AddVO
    \/ CallGetSupportedCaches
    \/ CallResourceAllowsNamespace
    \/ Respond

SpecPolicy == InitPolicy /\ [][NextPolicy]_vars

(***************************************************************************)
(* Properties                                                              *)
(***************************************************************************)
\* some entry of the authz list is the Public variant
HasPublicEntry(ns) == \E k \in 1..Len(ns.authz_list) : ns.authz_list[k].kind = "Public"

\* the two halves of the gate, spelled out on the fields
NodeAdmitsNamespace(n, ns) ==
    \/ ANY \in Range(n.AllowedVOs)
    \/ /\ ns # NoNamespace
       /\ \/ HasPublicEntry(ns) /\ ANY_PUBLIC \in Range(n.AllowedVOs)
          \/ ns.vo_name \in Range(n.AllowedVOs)

NamespaceAdmitsCache(ns, n) ==
    \/ ANY \in Range(ns.allowed_caches)
    \/ n # NoResource /\ n.name \in Range(ns.allowed_caches)

NamespaceAdmitsOrigin(ns, n) ==
    n # NoResource /\ n.name \in Range(ns.allowed_origins)

\* C1: get_supported_caches_for_namespace(ns, R) contains a resource n iff n is
\* in a resource group of R, provides the cache service, the namespace allows
\* it as a cache and it allows the namespace.
C1_SupportedCachesIff ==
    call.op = "get_supported_caches_for_namespace" =>
        \A n \in Range(AllResources(topology)) \cup {UnregisteredCache} :
            n \in Range(result.value) <=>
                /\ n \in Range(AllResources(topology))
                /\ XROOTD_CACHE_SERVER \in n.service_names
                /\ NamespaceAdmitsCache(call.namespace, n)
                /\ NodeAdmitsNamespace(n, call.namespace)

\* a call that returned one cache and left another cache out
C1_Witness ==
    /\ call.op = "get_supported_caches_for_namespace"
    /\ \E n, m \in Range(SelectSeq(AllResources(topology), _resource_has_cache)) :
          n \in Range(result.value) /\ m \notin Range(result.value)

\* C2: resource_allows_namespace(node, ns) is true iff ANY is in AllowedVOs, or
\* ns is not None and (ns is public and ANY_PUBLIC is in AllowedVOs, or
\* ns.vo_name is in AllowedVOs).
C2_ResourceAllowsIff ==
    call.op = "resource_allows_namespace" =>
        (result.value <=>
            \/ ANY \in Range(call.resource.AllowedVOs)
            \/ /\ call.namespace # NoNamespace
               /\ \/ HasPublicEntry(call.namespace)
                     /\ ANY_PUBLIC \in Range(call.resource.AllowedVOs)
                  \/ call.namespace.vo_name \in Range(call.resource.AllowedVOs))

\* ANY admits a None namespace, and ANY_PUBLIC admits a public namespace of a
\* VO that is not listed
C2_Witness ==
    /\ call.op = "resource_allows_namespace"
    /\ result.value
    /\ \/ call.namespace = NoNamespace
       \/ /\ call.namespace # NoNamespace
          /\ ANY \notin Range(call.resource.AllowedVOs)
          /\ call.namespace.vo_name \notin Range(call.resource.AllowedVOs)


(***************************************************************************)
(* Properties of the cache artifacts                                       *)
(***************************************************************************)
IsAscending(seq) == \A k \in 1..(Len(seq) - 1) : Rank(seq[k]) < Rank(seq[k + 1])

Lines(text, kind) == SelectSeq(text, LAMBDA l : l.line = kind)

\* the registered resource a generator was called for
Target == safe_get_resource_by_fqdn(topology, call.fqdn)
TargetIsCache == Target # NoResource /\ XROOTD_CACHE_SERVER \in Target.service_names
TargetIsOrigin == Target # NoResource /\ XROOTD_ORIGIN_SERVER \in Target.service_names

\* both halves of the gate between a namespace and a cache
CacheGate(ns, c) == NamespaceAdmitsCache(ns, c) /\ NodeAdmitsNamespace(c, ns)
OriginGate(ns, o) == NamespaceAdmitsOrigin(ns, o) /\ NodeAdmitsNamespace(o, ns)

\* the authz entries flagged used_in_authfile, in list order
AuthfileEntries(authz_list) ==
    SelectSeq(authz_list, LAMBDA a : a.kind \in {"Public", "DN", "FQAN"})

\* the DN entries made of the LIGO DN list
LigoAuthz(ligo_dn_list) ==
    [k \in 1..Len(ligo_dn_list) |-> DNAuth(strip(ligo_dn_list[k]))]

\* the (identity, path) grants of a cache authfile over the namespaces nss, in
\* iteration order; extra[k] are entries granted besides those of nss[k].authz_list
CacheGrants(nss, c, extra) ==
    Flatten([k \in 1..Len(nss) |->
        IF CacheGate(nss[k], c) /\ ~HasPublicEntry(nss[k])
        THEN LET used == AuthfileEntries(nss[k].authz_list \o extra[k])
             IN [m \in 1..Len(used) |->
                    [id |-> get_authfile_id(used[m]), path |-> nss[k].path,
                     str |-> Str(used[m])]]
        ELSE <<>>])

\* text has, for each identity of grants, in order of first insertion, one
\* comment line and then one identity line with the identity's paths, each
\* once, ascending, each followed by perm
IdentityLinesMatch(text, grants, perm) ==
    LET ids == FirstOccurrences([k \in 1..Len(grants) |-> grants[k].id])
        idlines == Lines(text, "identity")
    IN /\ Len(idlines) = Len(ids)
       /\ \A k \in 1..Len(ids) :
            LET paths == [m \in 1..Len(idlines[k].acl) |-> idlines[k].acl[m][1]]
            IN /\ idlines[k].id = ids[k]
               /\ Range(paths) = { grants[g].path :
                                     g \in { h \in 1..Len(grants) : grants[h].id = ids[k] } }
               /\ IsAscending(paths)
               /\ \A m \in 1..Len(idlines[k].acl) : idlines[k].acl[m][2] = perm
       /\ \A q \in 1..Len(text) :
            text[q].line = "identity" =>
                /\ q > 1
                /\ text[q - 1].line = "comment"
                /\ \E g \in 1..Len(grants) :
                      grants[g].id = text[q].id /\ grants[g].str = text[q - 1].str

\* a generate_cache_authfile call for a registered cache that returned a text
CacheAuthfileReturns ==
    /\ call = NoCall
    /\ call'.op = "generate_cache_authfile"
    /\ safe_get_resource_by_fqdn(topology, call'.fqdn) # NoResource
    /\ XROOTD_CACHE_SERVER \in safe_get_resource_by_fqdn(topology, call'.fqdn).service_names
    /\ result'.status = "return"

\* C3 as claimed: the identity lines grant exactly the paths of the gated
\* non-public namespaces whose own authz list holds an entry of the identity.
C3_AsClaimed ==
    [][CacheAuthfileReturns =>
         IdentityLinesMatch(result'.text,
                            CacheGrants(AllNamespaces(stashcache_by_vo_name),
                                        safe_get_resource_by_fqdn(topology, call'.fqdn),
                                        [k \in 1..Len(AllNamespaces(stashcache_by_vo_name)) |-> <<>>]),
                            "rl")]_vars

\* C3 (amended): as claimed, and with legacy set the DNs of the LIGO DN list
\* are granted /user/ligo besides.
C3_CacheAuthfileLines ==
    [][CacheAuthfileReturns =>
         IdentityLinesMatch(result'.text,
                            CacheGrants(AllNamespaces(stashcache_by_vo_name),
                                        safe_get_resource_by_fqdn(topology, call'.fqdn),
                                        [k \in 1..Len(AllNamespaces(stashcache_by_vo_name)) |->
                                            IF /\ AllNamespaces(stashcache_by_vo_name)[k].path = LIGO_PATH
                                               /\ call'.legacy
                                            THEN LigoAuthz(call'.ligo_dn_list)
                                            ELSE <<>>]),
                            "rl")]_vars

\* a cache authfile with an identity that holds two paths and with a LIGO DN
\* granted /user/ligo
C3_Witness ==
    /\ call.op = "generate_cache_authfile"
    /\ TargetIsCache
    /\ result.status = "return"
    /\ call.legacy /\ call.ligo_dn_list # <<>>
    /\ \E k, m \in 1..Len(result.text) :
          /\ result.text[k].line = "identity" /\ Len(result.text[k].acl) = 2
          /\ result.text[m].line = "identity"
          /\ result.text[m].id = <<"u", generate_dn_hash("/CN=ligo1")>>


\* a generator call for a registered resource that has the service it needs
CallForCache(op) == call.op = op /\ TargetIsCache
CallForOrigin(op) == call.op = op /\ TargetIsOrigin

Namespaces == AllNamespaces(stashcache_by_vo_name)

\* the paths of the public namespaces that pass the gate of the target cache
AdmittedPublicDirs ==
    { Namespaces[k].path :
        k \in { m \in 1..Len(Namespaces) :
                   HasPublicEntry(Namespaces[m]) /\ CacheGate(Namespaces[m], Target) } }

\* C5: for a registered cache with an admitted public namespace,
\* generate_public_cache_authfile returns the header line and then one line per
\* distinct admitted public path, ascending; every line but the last ends with
\* the continuation marker and the last one does not.
C5_PublicCacheAuthfile ==
    CallForCache("generate_public_cache_authfile") /\ AdmittedPublicDirs # {} =>
        /\ result.status = "return"
        /\ Len(result.text) = 1 + Cardinality(AdmittedPublicDirs)
        /\ result.text[1].line = "identity"
        /\ result.text[1].id = <<"u", "*">>
        /\ result.text[1].acl = << <<LIGO_PATH, "-rl">> >>
        /\ \A k \in 2..Len(result.text) :
              /\ result.text[k].line = "continuation"
              /\ Len(result.text[k].acl) = 1
              /\ result.text[k].acl[1][1] \in AdmittedPublicDirs
              /\ result.text[k].acl[1][2] = "rl"
              /\ k < Len(result.text) =>
                    Rank(result.text[k].acl[1][1]) < Rank(result.text[k + 1].acl[1][1])
        /\ \A k \in 1..Len(result.text) : result.text[k].cont <=> k < Len(result.text)

\* a public cache authfile of two public paths
C5_Witness ==
    /\ CallForCache("generate_public_cache_authfile")
    /\ Cardinality(AdmittedPublicDirs) = 2
    /\ result.status = "return"
    /\ Len(result.text) = 3

(***************************************************************************)
(* Properties of the SciTokens configurations                              *)
(***************************************************************************)
IsScitokensCall ==
    \/ CallForCache("generate_cache_scitokens")
    \/ CallForOrigin("generate_origin_scitokens")

ScitokensGate(ns) ==
    IF call.op = "generate_cache_scitokens" THEN CacheGate(ns, Target)
    ELSE OriginGate(ns, Target)

\* the gated non-public namespaces holding an entry flagged
\* used_in_scitokens_conf
ScitokensQualifying ==
    { k \in 1..Len(Namespaces) :
        /\ ~HasPublicEntry(Namespaces[k])
        /\ ScitokensGate(Namespaces[k])
        /\ \E m \in 1..Len(Namespaces[k].authz_list) :
              Namespaces[k].authz_list[m].kind = "SciToken" }

Blocks == Lines(result.text, "block")
Audience == Lines(result.text, "audience")[1].vos

\* C6: a SciTokens configuration of a registered target holds at least one
\* issuer block; without a qualifying entry it holds the dummy block alone
\* and the audience is empty.
C6_ScitokensNeverEmpty ==
    IsScitokensCall =>
        /\ result.status = "return"
        /\ Len(Blocks) >= 1
        /\ ScitokensQualifying = {} =>
              /\ Len(Blocks) = 1
              /\ SubSeq(Blocks[1].block, 1, 6) =
                    << "[Issuer", "https://scitokens.org/nonexistent",
                       "issuer", "https://scitokens.org/nonexistent",
                       "base_path", "/no-issuers-found" >>
              /\ Audience = <<>>

\* a configuration made of the dummy block although a namespace passed the gate
C6_Witness ==
    /\ IsScitokensCall
    /\ ScitokensQualifying = {}
    /\ \E k \in 1..Len(Namespaces) :
          ~HasPublicEntry(Namespaces[k]) /\ ScitokensGate(Namespaces[k])
    /\ Len(Blocks) = 1


\* the service a SciTokens generator renders its blocks for
ScitokensService ==
    IF call.op = "generate_cache_scitokens" THEN XROOTD_CACHE_SERVER
    ELSE XROOTD_ORIGIN_SERVER

\* the lines of the block of a SciTokens entry, as the artifact must show them
RenderedBlock(a, service_name) ==
    << "[Issuer", a.issuer, "issuer", a.issuer, "base_path", a.base_path >>
    \o (IF a.restricted_path = None THEN <<>> ELSE <<"restricted_path", a.restricted_path>>)
    \o (IF service_name = XROOTD_ORIGIN_SERVER
        THEN <<"map_subject", IF a.map_subject THEN "True" ELSE "False">>
        ELSE <<>>)

QualifyingBlocks ==
    UNION { { RenderedBlock(Namespaces[k].authz_list[m], ScitokensService) :
                m \in { n \in 1..Len(Namespaces[k].authz_list) :
                           Namespaces[k].authz_list[n].kind = "SciToken" } } :
            k \in ScitokensQualifying }

\* C7: the issuer blocks of a SciTokens configuration are pairwise distinct and
\* ascending (the blocks of the qualifying entries, each once), and the
\* audience lists, ascending and each once, exactly the VOs owning a gated
\* non-public namespace with an entry flagged used_in_scitokens_conf.
C7_ScitokensSortedUnique ==
    IsScitokensCall /\ result.status = "return" =>
        /\ \A k \in 1..(Len(Blocks) - 1) : SeqLess(Blocks[k].block, Blocks[k + 1].block)
        /\ ScitokensQualifying # {} =>
              { Blocks[k].block : k \in 1..Len(Blocks) } = QualifyingBlocks
        /\ IsAscending(Audience)
        /\ Range(Audience) = { Namespaces[k].vo_name : k \in ScitokensQualifying }

\* a cache configuration of two blocks made from three entries, the entries
\* being collected in descending order of their blocks, for two VOs
C7_Witness ==
    /\ CallForCache("generate_cache_scitokens")
    /\ result.status = "return"
    /\ Len(Blocks) = 2
    /\ Len(Audience) = 2
    /\ \E k \in ScitokensQualifying :
          /\ Len(Namespaces[k].authz_list) = 2
          /\ Namespaces[k].authz_list[1].kind = "SciToken"
          /\ Namespaces[k].authz_list[2].kind = "SciToken"
          /\ SeqLess(RenderedBlock(Namespaces[k].authz_list[2], XROOTD_CACHE_SERVER),
                     RenderedBlock(Namespaces[k].authz_list[1], XROOTD_CACHE_SERVER))
    /\ \E k \in ScitokensQualifying :
          \E m \in 1..Len(Namespaces[k].authz_list) :
              /\ Namespaces[k].authz_list[m].kind = "SciToken"
              /\ ~Namespaces[k].authz_list[m].map_subject
              /\ Namespaces[k].authz_list[m].issuer = "https://issuer.b"


(***************************************************************************)
(* Properties of the origin authfile                                       *)
(***************************************************************************)
IsOriginAuthfileCall == CallForOrigin("generate_origin_authfile")

\* the origin and then the caches passing both halves of the gate of ns, in
\* topology order
OriginAndCaches(ns) ==
    <<Target>> \o SelectSeq(AllResources(topology),
                            LAMBDA r : /\ XROOTD_CACHE_SERVER \in r.service_names
                                       /\ CacheGate(ns, r))

\* the DN identities of the origin and of the caches of ns that carry a DN
ResourceIds(ns) ==
    { <<"u", generate_dn_hash(r.DN)>> :
        r \in { x \in Range(OriginAndCaches(ns)) : x.DN # None /\ x.DN # "" } }

\* the non-public namespaces passing the gate of the target origin
OriginGated == { k \in 1..Len(Namespaces) :
                    ~HasPublicEntry(Namespaces[k]) /\ OriginGate(Namespaces[k], Target) }

\* the (identity, path) grants of an origin authfile, in iteration order
OriginGrants ==
    Flatten([k \in 1..Len(Namespaces) |->
        IF k \in OriginGated
        THEN LET rs == SelectSeq(OriginAndCaches(Namespaces[k]),
                                 LAMBDA r : r.DN # None /\ r.DN # "")
             IN [m \in 1..Len(rs) |->
                    [id |-> <<"u", generate_dn_hash(rs[m].DN)>>, path |-> Namespaces[k].path,
                     str |-> <<"DN: ", rs[m].DN>>]]
        ELSE <<>>])

\* the identities whose line in text lists path
GrantedIds(text, path) ==
    { text[q].id : q \in { r \in 1..Len(text) :
                              /\ text[r].line = "identity"
                              /\ \E m \in 1..Len(text[r].acl) : text[r].acl[m][1] = path } }

\* every identity line of text lists ascending paths, each followed by perm
AclsSorted(text, perm) ==
    \A q \in 1..Len(text) :
        text[q].line = "identity" =>
            /\ IsAscending([m \in 1..Len(text[q].acl) |-> text[q].acl[m][1]])
            /\ \A m \in 1..Len(text[q].acl) : text[q].acl[m][2] = perm

\* C4 as claimed: with public_origin false, the identities granted the path of
\* a gated non-public namespace are exactly the DN identities of the origin
\* and of that namespace's supported caches.
C4_AsClaimed ==
    IsOriginAuthfileCall /\ ~call.public_origin /\ result.status = "return" =>
        /\ \A k \in OriginGated :
              GrantedIds(result.text, Namespaces[k].path) = ResourceIds(Namespaces[k])
        /\ AclsSorted(result.text, "lr")

\* C4 (amended): with public_origin false, the identities granted a path are
\* exactly the DN identities of the origin and of the supported caches of the
\* gated non-public namespaces declared at that path, by whichever VO; the
\* namespaces' own DN and FQAN entries grant nothing; each identity has one
\* line, its paths ascending, each once and followed by 'lr'.
C4_OriginAuthfileGrants ==
    IsOriginAuthfileCall /\ ~call.public_origin /\ result.status = "return" =>
        /\ IdentityLinesMatch(result.text, OriginGrants, "lr")
        /\ \A k \in OriginGated :
              GrantedIds(result.text, Namespaces[k].path) =
                  UNION { ResourceIds(Namespaces[j]) :
                            j \in { i \in OriginGated :
                                       Namespaces[i].path = Namespaces[k].path } }

\* an origin authfile where the origin holds two paths, a cache holds one of
\* them, and a namespace lists a DN of its own
C4_Witness ==
    /\ IsOriginAuthfileCall /\ ~call.public_origin /\ result.status = "return"
    /\ Cardinality({ q \in 1..Len(result.text) : result.text[q].line = "identity" }) = 2
    /\ \E q, r \in 1..Len(result.text) :
          /\ result.text[q].line = "identity" /\ Len(result.text[q].acl) = 2
          /\ result.text[r].line = "identity" /\ Len(result.text[r].acl) = 1
    /\ \E k \in OriginGated :
          \E m \in 1..Len(Namespaces[k].authz_list) : Namespaces[k].authz_list[m].kind = "DN"

\* the paths of the public namespaces that pass the gate of the target origin
AdmittedOriginPublicPaths ==
    { Namespaces[k].path :
        k \in { m \in 1..Len(Namespaces) :
                   HasPublicEntry(Namespaces[m]) /\ OriginGate(Namespaces[m], Target) } }

\* the positions of the 'u *' lines of the result
PublicLines ==
    { q \in 1..Len(result.text) :
        result.text[q].line = "identity" /\ result.text[q].id = <<"u", "*">> }

\* C8: with public_origin the 'u *' line is the last line, after a blank line
\* and after every other line, and lists the admitted public paths ascending
\* with 'lr'; there is none when no public path is admitted, and none when
\* public_origin is false.
C8_PublicPathsLast ==
    IsOriginAuthfileCall =>
        /\ ~call.public_origin => PublicLines = {}
        /\ call.public_origin /\ AdmittedOriginPublicPaths = {} => PublicLines = {}
        /\ call.public_origin /\ AdmittedOriginPublicPaths # {} =>
              LET n == Len(result.text)
              IN /\ result.status = "return"
                 /\ PublicLines = {n}
                 /\ n >= 2
                 /\ result.text[n - 1].line = "blank"
                 /\ \A q \in 1..(n - 2) : result.text[q].line \in {"comment", "identity"}
                 /\ { result.text[n].acl[m][1] : m \in 1..Len(result.text[n].acl) }
                        = AdmittedOriginPublicPaths
                 /\ AclsSorted(result.text, "lr")
                 /\ Len(result.text[n].acl) = Cardinality(AdmittedOriginPublicPaths)

\* a public-origin authfile of two public paths
C8_Witness ==
    /\ IsOriginAuthfileCall /\ call.public_origin /\ result.status = "return"
    /\ Cardinality(AdmittedOriginPublicPaths) = 2
    /\ PublicLines # {}

\* C9 as claimed: with public_origin no path of a non-public namespace is in
\* the output, and no DN identity line and no warning.
C9_AsClaimed ==
    IsOriginAuthfileCall /\ call.public_origin /\ result.status = "return" =>
        \A q \in 1..Len(result.text) :
            /\ result.text[q].line # "comment"
            /\ result.text[q].line = "identity" =>
                  /\ result.text[q].id = <<"u", "*">>
                  /\ \A m \in 1..Len(result.text[q].acl) :
                        \A k \in 1..Len(Namespaces) :
                            Namespaces[k].path = result.text[q].acl[m][1]
                                => HasPublicEntry(Namespaces[k])

\* C9 (amended): with public_origin every path in the output is the path of a
\* public namespace passing the gate (a non-public namespace's path is there
\* only when such a public namespace is declared at the same path), and no DN
\* identity line and no warning is produced.
C9_PublicOriginOnlyPublic ==
    IsOriginAuthfileCall /\ call.public_origin /\ result.status = "return" =>
        \A q \in 1..Len(result.text) :
            /\ result.text[q].line # "comment"
            /\ result.text[q].line = "identity" =>
                  /\ result.text[q].id = <<"u", "*">>
                  /\ \A m \in 1..Len(result.text[q].acl) :
                        result.text[q].acl[m][1] \in AdmittedOriginPublicPaths

\* a public-origin authfile made while a non-public namespace passes the gate
\* of the origin, at a path that the output does not list
C9_Witness ==
    /\ IsOriginAuthfileCall /\ call.public_origin /\ result.status = "return"
    /\ \E k \in OriginGated :
          /\ Namespaces[k].path \notin AdmittedOriginPublicPaths
          /\ GrantedIds(result.text, Namespaces[k].path) = {}
    /\ PublicLines # {}

(***************************************************************************)
(* The snapshot under the generators                                       *)
(***************************************************************************)
\* a generator entry point is called
GeneratorCalled == call = NoCall /\ call' # NoCall

\* C10: a call of a generator entry point leaves every VO's namespaces, and
\* every Namespace's authz_list, allowed_origins and allowed_caches, as they
\* were before the call.
C10_GeneratorsLeaveSnapshot ==
    [][GeneratorCalled => stashcache_by_vo_name' = stashcache_by_vo_name]_vars


(***************************************************************************)
(* Error handling of the generators                                        *)
(***************************************************************************)
\* the used_in_authfile entries a namespace holds when the call is over
HoldsAuthfileEntry(ns) ==
    \E m \in 1..Len(ns.authz_list) : ns.authz_list[m].kind \in {"Public", "DN", "FQAN"}

\* a call for a registered target whose artifact would be empty
ArtifactWouldBeEmpty ==
    \/ /\ CallForCache("generate_cache_authfile")
       /\ \A k \in 1..Len(Namespaces) :
             CacheGate(Namespaces[k], Target) /\ ~HasPublicEntry(Namespaces[k])
                 => ~HoldsAuthfileEntry(Namespaces[k])
    \/ /\ CallForCache("generate_public_cache_authfile")
       /\ AdmittedPublicDirs = {}
    \/ /\ CallForOrigin("generate_origin_authfile")
       /\ call.public_origin \/ OriginGrants = <<>>
       /\ AdmittedOriginPublicPaths = {}

\* C11: when the artifact of generate_cache_authfile,
\* generate_public_cache_authfile or generate_origin_authfile would be empty,
\* the call returns without raising and carries no data if suppress_errors is
\* set, and raises DataError if it is not.
C11_EmptyFollowsSuppress ==
    ArtifactWouldBeEmpty =>
        IF call.suppress_errors
        THEN result.status = "return" /\ result.text = <<>>
        ELSE result.status = "raise" /\ result.exc = "DataError"

\* the generators that take an fqdn, and the service each needs of the target
TakesFqdn ==
    call.op \in { "generate_cache_authfile", "generate_public_cache_authfile",
                  "generate_cache_scitokens", "generate_origin_authfile",
                  "generate_origin_scitokens" }

NeededService ==
    IF call.op \in { "generate_origin_authfile", "generate_origin_scitokens" }
    THEN XROOTD_ORIGIN_SERVER ELSE XROOTD_CACHE_SERVER

\* the name of the error a lookup of call.fqdn ends with, None when it succeeds
LookupError ==
    IF Target = NoResource THEN "ResourceNotRegistered"
    ELSE IF NeededService \notin Target.service_names THEN "ResourceMissingService"
    ELSE None

\* C12: a generator given a non-empty fqdn that is not registered, or that is
\* registered without the service needed, returns the empty string if
\* suppress_errors is set; if not, it raises ResourceNotRegistered,
\* respectively ResourceMissingService, and produces no artifact.
C12_LookupErrors ==
    TakesFqdn /\ call.fqdn \notin {None, ""} /\ LookupError # None =>
        IF call.suppress_errors
        THEN result.status = "return" /\ result.exc = None /\ result.text = <<>>
        ELSE result.status = "raise" /\ result.exc = LookupError /\ result.text = <<>>

\* an origin generator called for a registered cache, errors not suppressed
C12_Witness ==
    /\ call.op = "generate_origin_scitokens"
    /\ ~call.suppress_errors
    /\ Target # NoResource
    /\ result.status = "raise" /\ result.exc = "ResourceMissingService"
    /\ stashcache_by_vo_name # <<>>


\* the comment lines of the result, as a set
Comments == { result.text[q].str : q \in { r \in 1..Len(result.text) :
                                            result.text[r].line = "comment" } }

NoCacheWarning(ns) ==
    <<"WARNING: No working cache / namespace combinations found for", ns.path>>

NoDnWarning(r, ns) ==
    <<"WARNING: Resource was skipped because the resource does not provide a DN.",
      r.name, ns.vo_name, ns.path>>

\* the principals of ns that carry no DN
WithoutDn(ns) == { r \in Range(OriginAndCaches(ns)) : r.DN = None \/ r.DN = "" }

\* a gated non-public namespace has a principal without DN or no supporting cache
SomeWarningDue ==
    \E k \in OriginGated :
        WithoutDn(Namespaces[k]) # {} \/ Len(OriginAndCaches(Namespaces[k])) = 1

\* the warnings due are in the text, ahead of every identity line, and every
\* identity line is that of a principal carrying a DN
WarningsInPlace ==
    /\ \A k \in OriginGated :
          /\ Len(OriginAndCaches(Namespaces[k])) = 1
                => NoCacheWarning(Namespaces[k]) \in Comments
          /\ \A r \in WithoutDn(Namespaces[k]) : NoDnWarning(r, Namespaces[k]) \in Comments
    /\ \A q, r \in 1..Len(result.text) :
          /\ result.text[q].line = "comment"
          /\ result.text[q].str \notin { <<"DN: ", x.DN>> : x \in Range(AllResources(topology)) }
          /\ result.text[r].line = "identity"
          => q < r
    /\ \A q \in 1..Len(result.text) :
          result.text[q].line = "identity" =>
              result.text[q].id \in UNION { ResourceIds(Namespaces[k]) : k \in OriginGated }

\* C13 as claimed: whenever a warning is due in generate_origin_authfile, the
\* call still returns an artifact, with the warnings ahead of the identity
\* lines and no identity line for a principal without DN.
C13_AsClaimed ==
    IsOriginAuthfileCall /\ ~call.public_origin /\ SomeWarningDue =>
        result.status = "return" /\ WarningsInPlace

\* C13 (amended): with public_origin false and a warning due, the call
\* returns exactly when some principal of a gated non-public namespace
\* carries a DN or a public path is admitted, and raises DataError otherwise;
\* when it returns, the warnings are in the text ahead of every identity line
\* and a principal without DN has no identity line.
C13_WarningsNotFatal ==
    IsOriginAuthfileCall /\ ~call.public_origin /\ SomeWarningDue =>
        IF OriginGrants # <<>> \/ AdmittedOriginPublicPaths # {}
        THEN result.status = "return" /\ WarningsInPlace
        ELSE result.status = "raise" /\ result.exc = "DataError"

\* an origin without DN and a cache with one: two warnings and one identity line
C13_Witness ==
    /\ IsOriginAuthfileCall /\ ~call.public_origin /\ result.status = "return"
    /\ Target.DN = None
    /\ \E k \in OriginGated : NoDnWarning(Target, Namespaces[k]) \in Comments
    /\ \E q \in 1..Len(result.text) : result.text[q].line = "identity"


(***************************************************************************)
(* generate_cache_authfile without a target, and the LIGO DN list          *)
(***************************************************************************)
\* C14: generate_cache_authfile called without fqdn grants, for every
\* non-public namespace of every VO, the path to the identity of each of its
\* used_in_authfile entries, whatever its allowed_caches holds.
C14_NoTargetUnconditional ==
    call.op = "generate_cache_authfile" /\ call.fqdn = None =>
        \A k \in 1..Len(Namespaces) :
            ~HasPublicEntry(Namespaces[k]) =>
                \A m \in 1..Len(Namespaces[k].authz_list) :
                    Namespaces[k].authz_list[m].kind \in {"DN", "FQAN"} =>
                        /\ result.status = "return"
                        /\ get_authfile_id(Namespaces[k].authz_list[m])
                               \in GrantedIds(result.text, Namespaces[k].path)


\* the DNs the external LIGO DN list may hold
LigoDns == UNION { Range(l) : l \in LigoDnLists }

\* the gate of generate_cache_authfile, for a registered cache or for no target
CacheAuthfileGate(ns) ==
    IF call.fqdn = None THEN ANY \in Range(ns.allowed_caches)
    ELSE TargetIsCache /\ CacheGate(ns, Target)

\* some gated non-public namespace is declared at /user/ligo
LigoNamespaceGated ==
    \E k \in 1..Len(Namespaces) :
        /\ Namespaces[k].path = LIGO_PATH
        /\ ~HasPublicEntry(Namespaces[k])
        /\ CacheAuthfileGate(Namespaces[k])

\* C15: a generate_cache_authfile call with legacy false that returns, whatever
\* calls preceded it, has the comment 'LIGO DNs unavailable' in its text when a
\* gated non-public /user/ligo exists, and grants /user/ligo to no identity of
\* the LIGO DN list.
C15_NoLigoDnsWithoutLegacy ==
    /\ call.op = "generate_cache_authfile"
    /\ ~call.legacy
    /\ result.status = "return"
    /\ LigoNamespaceGated
    => /\ <<"LIGO DNs unavailable">> \in Comments
       /\ \A dn \in LigoDns :
             <<"u", generate_dn_hash(dn)>> \notin GrantedIds(result.text, LIGO_PATH)

\* C16: one call of generate_cache_authfile fetches the LIGO DN list at most
\* once.
C16_FetchedAtMostOnce ==
    call.op = "generate_cache_authfile" => result.fetches <= 1


(***************************************************************************)
(* Namespace and StashCache of both modules, applied to authz lists and    *)
(* to list-shape documents.                                                *)
(***************************************************************************)
\* cap on the number of declarations of a document
MaxDocLen == 3

Modules == { "vos_data", "data_federation" }

AuthMethods ==
    { PublicAuth, DNAuth("/CN=alice"), FQANAuth("/osg/Role=user"),
      SciTokenAuth("https://issuer.a", "/osg", None, FALSE) }

AuthzLists == UNION { [1..n -> AuthMethods] : n \in 0..MaxAuthzLen }

\* the items of a "Namespaces" list: declarations of /osg and /user/ligo that
\* differ in every field, one without Path, one with an unparsable entry, and
\* some with a CredentialGeneration block (valid and not)
LoaderItems ==
    { NamespaceData("/osg", << <<"origin1">>, <<ANY>> >>, <<PUBLIC>>),
      NamespaceData("/osg", << <<>>, <<"cache2">> >>, <<FQAN_osg, DN_alice>>),
      NamespaceData(LIGO_PATH, << <<"origin1">>, <<"cache1">> >>, <<DN_alice, PUBLIC>>),
      [AllowedOrigins |-> <<"origin1">>, AllowedCaches |-> <<ANY>>,
       Authorizations |-> <<PUBLIC>>],
      NamespaceData(LIGO_PATH, << <<"origin1">>, <<ANY>> >>,
                    << [form |-> "str", prefix |-> "", rest |-> "bogus"], DN_alice >>),
      NamespaceData("/osg", << <<"origin1">>, <<"cache1">> >>, <<S_a>>)
          @@ [CredentialGeneration |->
                 [Strategy |-> "OAuth2", Issuer |-> "https://issuer.a",
                  MaxScopeDepth |-> PyInt(3)]],
      NamespaceData(LIGO_PATH, << <<"origin1">>, <<ANY>> >>, <<DN_alice>>)
          @@ [CredentialGeneration |->
                 [Strategy |-> "Vault", Issuer |-> "http://issuer.a"]],
      NamespaceData("/osg", << <<"origin1">>, <<ANY>> >>, <<FQAN_osg>>)
          @@ [CredentialGeneration |->
                 [Strategy |-> "OAuth2", Issuer |-> "https://issuer.a",
                  VaultServer |-> "vault.org"]] }

LoaderDocs == UNION { [1..n -> LoaderItems] : n \in 1..MaxDocLen }

InitLoader == topology \in { Topology(<<ANY>>, <<ANY>>, "/CN=origin1") } /\ TypeInit

\* Namespace(...).is_public() of either module
CallIsPublic ==
    \E module \in Modules, authz_list \in AuthzLists :
        LET ns == Namespace("/osg", "osg", <<>>, <<>>, authz_list, None, None)
        IN /\ Ready
           /\ call' = [op |-> "Namespace.is_public", module |-> module,
                       authz_list |-> authz_list]
           /\ result' = Value(IF module = "vos_data" THEN Namespace_is_public(ns)
                              ELSE df_Namespace_is_public(ns))
           /\ UNCHANGED <<topology, stashcache_by_vo_name>>

\* StashCache(vo_name, yaml_data) of either module
CallStashCache ==
    \E module \in Modules, yaml_data \in LoaderDocs :
        LET obj == IF module = "vos_data"
                   THEN [StashCache("osg", yaml_data) EXCEPT
                            !.raised = IF @ THEN "TypeError" ELSE None]
                   ELSE df_StashCache("osg", yaml_data)
        IN /\ Ready
           /\ call' = [op |-> "StashCache", module |-> module, vo_name |-> "osg",
                       yaml_data |-> yaml_data]
           /\ result' = [status |-> IF obj.raised = None THEN "return" ELSE "raise",
                         exc |-> obj.raised, value |-> obj]
           /\ UNCHANGED <<topology, stashcache_by_vo_name>>

NextLoader ==
    \/ CallIsPublic
    \/ CallStashCache
    \/ Respond

SpecLoader == InitLoader /\ [][NextLoader]_vars

\* the DataFederations/StashCache "Namespaces" lists of the VOs being added
AddVODocs(vo_name) ==
    IF vo_name = "osg" THEN LoaderDocs ELSE StashCacheDocs(vo_name)

\* VOsData.add_vo(vo_name, vo_data), the request and its outcome kept
CallAddVO ==
    \E vo_name \in VONames :
      \E stashcache_data \in AddVODocs(vo_name) :
        LET stashcache_obj == StashCache(vo_name, stashcache_data)
        IN /\ Ready
           \* the VOs are read in the order osg, ligo
           /\ \A i \in 1..Len(stashcache_by_vo_name) :
                  stashcache_by_vo_name[i].vo_name \notin {vo_name, "ligo"}
           /\ call' = [op |-> "add_vo", vo_name |-> vo_name, yaml_data |-> stashcache_data]
           /\ result' = IF stashcache_obj.raised THEN Raise("TypeError") ELSE Return(<<>>)
           /\ stashcache_by_vo_name' =
                  IF stashcache_obj.raised THEN stashcache_by_vo_name
                  ELSE add_vo(stashcache_by_vo_name, vo_name, stashcache_data)
           /\ UNCHANGED topology

NextAddVO ==
    \/ CallAddVO
    \/ Respond

SpecAddVO == InitLoader /\ [][NextAddVO]_vars

\* C17: Namespace.is_public() is true iff some entry of authz_list, at any
\* position, is the Public variant (false on an empty list), in vos_data as
\* in data_federation.
C17_IsPublicIffAny ==
    call.op = "Namespace.is_public" =>
        (result.value <=>
            \E k \in 1..Len(call.authz_list) : call.authz_list[k].kind = "Public")


\* the declarations of the document of a StashCache call
Doc == call.yaml_data

HasPath(i) == "Path" \in DOMAIN Doc[i]

\* declaration i is the first of its path; declaration i repeats a path
FirstOfPath(i) == HasPath(i) /\ \A j \in 1..(i - 1) : HasPath(j) => Doc[j].Path # Doc[i].Path
RepeatsPath(i) == HasPath(i) /\ ~FirstOfPath(i)

\* declaration i carries a CredentialGeneration block that does not validate
InvalidCredentialGeneration(i) ==
    /\ "CredentialGeneration" \in DOMAIN Doc[i]
    /\ validate(CredentialGeneration(Doc[i].CredentialGeneration)) # {}

\* whether the module of the call reads CredentialGeneration blocks
ReadsCredentialGeneration == call.module = "data_federation"

\* the authz list the module of the call makes of declaration i
ParsedAuthz(i) ==
    IF call.module = "vos_data"
    THEN parse_authz_list(Doc[i].Path, Doc[i].Authorizations).authz_list
    ELSE df_parse_authz_list(Doc[i].Path, Doc[i].Authorizations).authz_list

\* the registry of the constructed object holds the namespace of declaration i
Registered(i) ==
    \E k \in 1..Len(result.value.namespaces) :
        LET ns == result.value.namespaces[k]
        IN /\ ns.path = Doc[i].Path
           /\ ns.vo_name = call.vo_name
           /\ ns.allowed_origins = Doc[i].AllowedOrigins
           /\ ns.allowed_caches = Doc[i].AllowedCaches
           /\ ns.authz_list = ParsedAuthz(i)

FailsValidation(i) == FirstOfPath(i) /\ InvalidCredentialGeneration(i)

\* declaration i is valid: the first of its path, every authz entry parses,
\* and its CredentialGeneration block, if any, validates
ValidDeclaration(i) ==
    /\ FirstOfPath(i)
    /\ ~InvalidCredentialGeneration(i)
    /\ df_parse_authz_list(Doc[i].Path, Doc[i].Authorizations).errors = {}

\* C19: when a list-shape declaration carries a CredentialGeneration block
\* whose validate() is non-empty, StashCache construction of data_federation
\* returns, the registry holds no namespace of that path, errors holds the
\* validation errors under the path, and every valid declaration of the
\* document, before or after, is in the registry.
C19_InvalidCredentialGenerationSkipped ==
    /\ call.op = "StashCache"
    /\ ReadsCredentialGeneration
    /\ \E i \in 1..Len(Doc) : FailsValidation(i)
    => /\ result.status = "return"
       /\ \A i \in 1..Len(Doc) :
             /\ FailsValidation(i) =>
                   /\ \A k \in 1..Len(result.value.namespaces) :
                         result.value.namespaces[k].path # Doc[i].Path
                   /\ \A e \in validate(CredentialGeneration(Doc[i].CredentialGeneration)) :
                         ErrorString(None, Doc[i].Path, e, None) \in result.value.errors
             /\ (ValidDeclaration(i)
                    /\ \A j \in 1..Len(Doc) : FailsValidation(j) => Doc[j].Path # Doc[i].Path)
                    => Registered(i)


\* declaration i of an add_vo document is malformed for webapp.vos_data: no
\* Path, a path already declared, or an authz entry that does not parse
Malformed(i) ==
    \/ ~HasPath(i)
    \/ RepeatsPath(i)
    \/ parse_authz_list(Doc[i].Path, Doc[i].Authorizations).errors # {}

\* the generators find the namespace of declaration i under the VO
Available(i) ==
    \E v \in 1..Len(stashcache_by_vo_name) :
        /\ stashcache_by_vo_name[v].vo_name = call.vo_name
        /\ \E k \in 1..Len(stashcache_by_vo_name[v].namespaces) :
              LET ns == stashcache_by_vo_name[v].namespaces[k]
              IN /\ ns.path = Doc[i].Path
                 /\ ns.authz_list =
                        parse_authz_list(Doc[i].Path, Doc[i].Authorizations).authz_list
                 /\ ns.allowed_origins = Doc[i].AllowedOrigins
                 /\ ns.allowed_caches = Doc[i].AllowedCaches

\* C20: after add_vo of a VO whose document holds one malformed declaration
\* (no Path, a repeated path, or an unparsable authz entry) and at least one
\* well-formed one, every well-formed namespace of the VO is in
\* stashcache_by_vo_name.
C20_MalformedDoesNotBlock ==
    /\ call.op = "add_vo"
    /\ result.status = "return"
    /\ Cardinality({ i \in 1..Len(Doc) : Malformed(i) }) = 1
    => \A i \in 1..Len(Doc) : ~Malformed(i) => Available(i)


(***************************************************************************)
(* The functions and methods of webapp.vos_data / webapp.data_federation   *)
(* called on their own: parse_authz, CredentialGeneration.validate and     *)
(* SciTokenAuth.get_scitokens_conf_block.                                  *)
(***************************************************************************)
\* parse_authz(authz) of either module; the items are strings, mappings of
\* no, one or two keys, and a value of another type
CallParseAuthz ==
    LET PyValues ==
            { PyNone, PyStr(""), PyStr("/osg/Role=user"), PyBool(TRUE), PyDict(<<>>),
              PyDict(("Issuer" :> PyStr("https://issuer.b")) @@ ("Base Path" :> PyStr("/osg"))),
              PyDict(("Issuer" :> PyStr("https://issuer.b")) @@ ("BasePath" :> PyStr("/osg"))
                     @@ ("MapSubject" :> PyBool(TRUE))),
              PyDict(("Issuer" :> PyStr("https://issuer.b"))),
              PyDict(("Issuer" :> PyStr("https://issuer.b")) @@ ("Base Path" :> PyStr("/osg"))
                     @@ ("Map Subject" :> PyStr("yes"))),
              PyDict(("Issuer" :> PyStr("https://issuer.b")) @@ ("Base Path" :> PyStr("/osg"))
                     @@ ("Restricted Path" :> PyInt(1))) }
        AuthTypes == { "SciTokens", "FQAN", "DN", "Kerberos" }
        ParseItems ==
            { [form |-> "str", prefix |-> pf, rest |-> r] :
                  pf \in { "FQAN:", "DN:", "" },
                  r \in { "", " ", " /CN=alice", "PUBLIC", " PUBLIC ", "bogus" } }
            \cup { [form |-> "other"], [form |-> "dict", items |-> <<>>] }
            \cup { [form |-> "dict", items |-> << <<k, v>> >>] :
                       k \in AuthTypes, v \in PyValues }
            \cup { [form |-> "dict",
                    items |-> << <<k1, v1>>, <<k2, PyStr("/osg/Role=user")>> >>] :
                       k1 \in AuthTypes, v1 \in PyValues, k2 \in AuthTypes }
    IN \E module \in Modules, authz \in ParseItems :
        /\ Ready
        /\ call' = [op |-> "parse_authz", module |-> module, authz |-> authz]
        /\ result' = Value(IF module = "vos_data" THEN parse_authz(authz)
                           ELSE df_parse_authz(authz))
        /\ UNCHANGED <<topology, stashcache_by_vo_name>>

\* StashCache(vo_name, yaml_data) of either module on a document of one
\* declaration, whose Authorizations hold well-formed entries, a string of
\* no kind, an FQAN mapping without value and an empty mapping
CallStashCacheAuthz ==
    LET AuthzEntries ==
            { PUBLIC, DN_alice, FQAN_osg, S_a,
              [form |-> "str", prefix |-> "", rest |-> "bogus"],
              [form |-> "dict", items |-> << <<"FQAN", PyStr("")>> >>],
              [form |-> "dict", items |-> <<>>] }
    IN \E module \in Modules, n \in 0..MaxAuthzLen :
      \E unparsed_authz_list \in [1..n -> AuthzEntries] :
        LET yaml_data == << NamespaceData("/osg", << <<"origin1">>, <<ANY>> >>,
                                          unparsed_authz_list) >>
            obj == IF module = "vos_data"
                   THEN [StashCache("osg", yaml_data) EXCEPT
                            !.raised = IF @ THEN "TypeError" ELSE None]
                   ELSE df_StashCache("osg", yaml_data)
        IN /\ Ready
           /\ call' = [op |-> "StashCache", module |-> module, vo_name |-> "osg",
                       yaml_data |-> yaml_data]
           /\ result' = [status |-> IF obj.raised = None THEN "return" ELSE "raise",
                         exc |-> obj.raised, value |-> obj]
           /\ UNCHANGED <<topology, stashcache_by_vo_name>>

\* CredentialGeneration(strategy, issuer, max_scope_depth, vault_server,
\* base_path, vault_issuer).validate()
CallValidate ==
    \E strategy \in { STRATEGY_OAUTH2, STRATEGY_VAULT, "Kerberos", "" },
       issuer \in { "https://issuer.a", "http://issuer.a", "issuer.a", "" },
       max_scope_depth \in { PyNone, PyInt(0), PyInt(3), PyInt(-1) },
       vault_server \in { None, "", "vault.org" },
       base_path \in { None, "/osg" },
       vault_issuer \in { None, "", "vault-issuer" } :
        LET self == [strategy |-> strategy, issuer |-> issuer,
                     max_scope_depth |-> max_scope_depth, vault_server |-> vault_server,
                     base_path |-> base_path, vault_issuer |-> vault_issuer]
        IN /\ Ready
           /\ call' = [op |-> "validate", self |-> self]
           /\ result' = Value(validate(self))
           /\ UNCHANGED <<topology, stashcache_by_vo_name>>

\* SciTokenAuth(...).get_scitokens_conf_block(service_name)
CallGetScitokensConfBlock ==
    \E issuer \in { "https://issuer.a", "https://issuer.b" },
       restricted_path \in { None, "", "/user/ligo" },
       map_subject \in BOOLEAN,
       service_name \in { XROOTD_CACHE_SERVER, XROOTD_ORIGIN_SERVER, "XRootD component", "" } :
        LET self == SciTokenAuth(issuer, "/osg", restricted_path, map_subject)
            block == get_scitokens_conf_block(self, service_name)
        IN /\ Ready
           /\ call' = [op |-> "get_scitokens_conf_block", self |-> self,
                       service_name |-> service_name]
           /\ result' = IF block = <<"ValueError">>
                        THEN [status |-> "raise", exc |-> "ValueError", value |-> <<>>]
                        ELSE Value(block)
           /\ UNCHANGED <<topology, stashcache_by_vo_name>>

NextMethods ==
    \/ CallParseAuthz
    \/ CallStashCacheAuthz
    \/ CallValidate
    \/ CallGetScitokensConfBlock
    \/ Respond

SpecMethods == InitLoader /\ [][NextMethods]_vars

\* the kind an item selects: by its prefix for a string (PUBLIC without
\* one), by its first key for a mapping
SelectedKind(authz) ==
    IF authz.form = "str"
    THEN (CASE authz.prefix = "FQAN:" -> "FQAN"
            [] authz.prefix = "DN:" -> "DN"
            [] OTHER -> "Public")
    ELSE IF authz.form = "dict" /\ authz.items # <<>>
    THEN (CASE authz.items[1][1] = "SciTokens" -> "SciToken"
            [] OTHER -> authz.items[1][1])
    ELSE "Null"

\* C21: parse_authz is total: for every item (a string, a mapping of zero,
\* one or several keys, a value of another type) it returns a pair
\* (method, error); error is non-null iff method is the Null variant, and on
\* success the variant is the one the item selects.
C21_ParseAuthzTotal ==
    call.op = "parse_authz" =>
        /\ result.status = "return"
        /\ result.value.pair
        /\ (result.value.err # None) <=> (result.value.method.kind = "Null")
        /\ result.value.err = None => result.value.method.kind = SelectedKind(call.authz)


\* what the module of the call makes of one entry of an Authorizations list
ParsedEntry(authz) ==
    IF call.module = "vos_data" THEN parse_authz(authz) ELSE df_parse_authz(authz)

\* the entry does not parse: no pair, or a pair holding an error
FailsToParse(authz) == ~ParsedEntry(authz).pair \/ ParsedEntry(authz).err # None

\* C22: after StashCache construction no namespace's authz_list holds a
\* Null-variant entry, errors holds a string for every entry of the source
\* Authorizations lists that fails to parse, and the load does not raise.
C22_UnparsedDroppedAndRecorded ==
    (call.op = "StashCache" /\ Len(Doc) = 1 /\ HasPath(1)) =>
        /\ result.status = "return"
        /\ \A k \in 1..Len(result.value.namespaces) :
              \A j \in 1..Len(result.value.namespaces[k].authz_list) :
                  result.value.namespaces[k].authz_list[j].kind # "Null"
        /\ \A j \in 1..Len(Doc[1].Authorizations) :
              FailsToParse(Doc[1].Authorizations[j]) =>
                  \E e \in result.value.errors : e.path = Doc[1].Path /\ e.idx = -1


(***************************************************************************)
(* The namespace's half of the gate, on snapshots whose namespaces list    *)
(* ANY among their AllowedOrigins / AllowedCaches too.                     *)
(***************************************************************************)
\* VOsData.add_vo of a VO declaring one namespace
AddGateVO ==
    LET GatePolicies ==
            { << <<ANY>>, <<ANY>> >>,
              << <<"origin1">>, <<"cache1">> >>,
              << <<>>, <<"cache2">> >>,
              << <<ANY, "origin1">>, <<>> >> }
    IN \E vo_name \in VONames, policy \in GatePolicies,
          az \in { <<PUBLIC>>, <<FQAN_osg, DN_alice>>, <<S_a>> } :
        LET stashcache_data ==
                << NamespaceData(IF vo_name = "osg" THEN "/osg" ELSE LIGO_PATH, policy, az) >>
        IN /\ Ready
           \* the VOs are read in the order osg, ligo
           /\ \A i \in 1..Len(stashcache_by_vo_name) :
                  stashcache_by_vo_name[i].vo_name \notin {vo_name, "ligo"}
           /\ stashcache_by_vo_name' = add_vo(stashcache_by_vo_name, vo_name, stashcache_data)
           /\ UNCHANGED <<topology, call, result>>

\* namespace_allows_cache_resource(namespace, cache); cache may be None or a
\* cache of no resource group
CallNamespaceAllowsCache ==
    \E cache \in Range(AllResources(topology)) \cup {NoResource, UnregisteredCache},
       namespace \in Range(AllNamespaces(stashcache_by_vo_name)) :
        /\ Ready
        /\ call' = PolicyCall("namespace_allows_cache_resource", cache, namespace)
        /\ result' = Value(namespace_allows_cache_resource(namespace, cache))
        /\ UNCHANGED <<topology, stashcache_by_vo_name>>

\* namespace_allows_origin_resource(namespace, origin); origin may be None
CallNamespaceAllowsOrigin ==
    \E origin \in Range(AllResources(topology)) \cup {NoResource},
       namespace \in Range(AllNamespaces(stashcache_by_vo_name)) :
        /\ Ready
        /\ call' = PolicyCall("namespace_allows_origin_resource", origin, namespace)
        /\ result' = Value(namespace_allows_origin_resource(namespace, origin))
        /\ UNCHANGED <<topology, stashcache_by_vo_name>>

NextGate ==
    \/ AddGateVO
    \/ CallNamespaceAllowsCache
    \/ CallNamespaceAllowsOrigin
    \/ GenerateOriginAuthfile
    \/ GenerateOriginScitokens
    \/ Respond

SpecGate == Init /\ [][NextGate]_vars

\* C23: namespace_allows_cache_resource(ns, cache) is true iff ANY is in
\* ns.allowed_caches, or cache is not None and cache.name is in
\* ns.allowed_caches; for a None cache it is true exactly when ANY is listed.
C23_NamespaceAllowsCacheIff ==
    call.op = "namespace_allows_cache_resource" =>
        /\ result.value <=>
              \/ ANY \in Range(call.namespace.allowed_caches)
              \/ /\ call.resource # NoResource
                 /\ \E k \in 1..Len(call.namespace.allowed_caches) :
                        call.namespace.allowed_caches[k] = call.resource.name
        /\ call.resource = NoResource =>
              (result.value <=> ANY \in Range(call.namespace.allowed_caches))

\* a None cache admitted by a namespace listing ANY
C23_Witness ==
    /\ call.op = "namespace_allows_cache_resource"
    /\ call.resource = NoResource
    /\ result.value

\* the call is an origin generator's, without target origin
NoTargetOrigin ==
    /\ call.op \in { "generate_origin_authfile", "generate_origin_scitokens" }
    /\ call.fqdn = None

\* C24: namespace_allows_origin_resource(ns, origin) holds iff origin is not
\* None and origin.name is in ns.allowed_origins: ANY among the allowed
\* origins admits no origin of another name, and a None origin is never
\* admitted, so without target origin generate_origin_authfile finds no
\* namespace to support (DataError) and generate_origin_scitokens returns
\* the empty text.
C24_NamespaceAllowsOriginIff ==
    /\ call.op = "namespace_allows_origin_resource" =>
          (result.value <=>
              /\ call.resource # NoResource
              /\ \E k \in 1..Len(call.namespace.allowed_origins) :
                     call.namespace.allowed_origins[k] = call.resource.name)
    /\ NoTargetOrigin =>
          /\ result.text = <<>>
          /\ call.op = "generate_origin_authfile" =>
                 result.status = "raise" /\ result.exc = "DataError"
          /\ call.op = "generate_origin_scitokens" => result.status = "return"

\* a registered origin refused by a namespace whose allowed origins are ANY
C24_Witness ==
    /\ call.op = "namespace_allows_origin_resource"
    /\ call.resource # NoResource
    /\ XROOTD_ORIGIN_SERVER \in call.resource.service_names
    /\ call.namespace.allowed_origins = <<ANY>>
    /\ ~result.value


\* an optional string field of a CredentialGeneration is set
IsSet(x) == x # None /\ x # ""

VaultServerErrors ==
    { "VaultServer specified for a non-Vault strategy",
      "VaultServer not specified for a Vault strategy" }

\* validate() reported a VaultServer error; a VaultIssuer error
ReportsVaultServer == result.value \cap VaultServerErrors # {}
ReportsVaultIssuer == "VaultIssuer specified for a non-Vault strategy" \in result.value

\* the VaultServer and VaultIssuer errors are reported where they are due
VaultErrorsIff ==
    /\ ReportsVaultServer <=>
          (IsSet(call.self.vault_server) # (call.self.strategy = STRATEGY_VAULT))
    /\ ReportsVaultIssuer <=>
          (IsSet(call.self.vault_issuer) /\ call.self.strategy # STRATEGY_VAULT)

\* a valid strategy, an https issuer with a host, consistent vault fields
StrategyIssuerVaultValid ==
    /\ call.self.strategy \in { "OAuth2", "Vault" }
    /\ call.self.issuer \in { "https://issuer.a", "https://issuer.b" }
    /\ IsSet(call.self.vault_server) <=> call.self.strategy = "Vault"
    /\ IsSet(call.self.vault_issuer) => call.self.strategy = "Vault"

BlockHasLine(key) ==
    \E k \in 1..Len(result.value) : k % 2 = 1 /\ result.value[k] = key

\* C27: SciTokenAuth.get_scitokens_conf_block(service) holds a map_subject
\* line iff service is the origin service (never for the cache service) and
\* a restricted_path line iff restricted_path is set; for any other service
\* it raises ValueError.
C27_ConfBlockLines ==
    call.op = "get_scitokens_conf_block" =>
        IF call.service_name \in { "XRootD cache server", "XRootD origin server" }
        THEN /\ result.status = "return"
             /\ BlockHasLine("map_subject") <=> call.service_name = "XRootD origin server"
             /\ BlockHasLine("restricted_path") <=> IsSet(call.self.restricted_path)
        ELSE result.status = "raise" /\ result.exc = "ValueError"

\* a block for the origin service with map_subject and without restricted_path
C27_Witness ==
    /\ call.op = "get_scitokens_conf_block"
    /\ call.service_name = XROOTD_ORIGIN_SERVER
    /\ call.self.restricted_path = ""
    /\ result.status = "return"
    /\ BlockHasLine("map_subject") /\ ~BlockHasLine("restricted_path")


\* the resource names of entry k of the 'namespaces' array
ListedCaches(k) ==
    { result.namespaces[k].caches[j].resource : j \in 1..Len(result.namespaces[k].caches) }

\* the names of the cache-capable resources passing both halves of the gate
\* for the namespace
GatedCaches(ns) ==
    { AllResources(topology)[j].name : j \in
        { i \in 1..Len(AllResources(topology)) :
            /\ XROOTD_CACHE_SERVER \in AllResources(topology)[i].service_names
            /\ NodeAdmitsNamespace(AllResources(topology)[i], ns)
            /\ NamespaceAdmitsCache(ns, AllResources(topology)[i]) } }

SupportedCacheNames(ns) ==
    { get_supported_caches_for_namespace(ns, topology)[j].name :
        j \in 1..Len(get_supported_caches_for_namespace(ns, topology)) }

\* C26: in get_namespaces_info, the 'caches' list of every namespace names
\* exactly the cache-capable resources passing both halves of the gate for it,
\* the set of names get_supported_caches_for_namespace gives; 'readhttps' is
\* true iff the namespace is not public; every listed cache is in the
\* top-level 'caches' array.
C26_NamespacesInfoCaches ==
    call.op = "get_namespaces_info" =>
        /\ Len(result.namespaces) = Len(AllNamespaces(stashcache_by_vo_name))
        /\ \A k \in 1..Len(result.namespaces) :
              LET ns == AllNamespaces(stashcache_by_vo_name)[k]
              IN /\ result.namespaces[k].path = ns.path
                 /\ ListedCaches(k) = GatedCaches(ns)
                 /\ ListedCaches(k) = SupportedCacheNames(ns)
                 /\ result.namespaces[k].readhttps <=> ~HasPublicEntry(ns)
                 /\ \A j \in 1..Len(result.namespaces[k].caches) :
                        result.namespaces[k].caches[j] \in Range(result.caches)

\* a non-public namespace listed with one cache and without another that it
\* allows itself, next to a public namespace
C26_Witness ==
    /\ call.op = "get_namespaces_info"
    /\ \E k, m \in 1..Len(result.namespaces) :
          /\ result.namespaces[k].readhttps
          /\ ~result.namespaces[m].readhttps
          /\ ListedCaches(k) # {}
          /\ \E c \in Range(result.caches) :
                /\ c.resource \notin ListedCaches(k)
                /\ ANY \in Range(AllNamespaces(stashcache_by_vo_name)[k].allowed_caches)


(***************************************************************************)
(* generate_cache_authfile on the snapshots VOsData.add_vo builds from     *)
(* the loader's documents.                                                 *)
(***************************************************************************)
NextLoaded ==
    \/ CallAddVO
    \/ GenerateCacheAuthfile
    \/ Respond

SpecLoaded == InitLoader /\ [][NextLoaded]_vars

\* C28: every namespace of the snapshot, built by the StashCache loader of
\* webapp.vos_data, has an authz_list without Public entry or equal to
\* [Public]; so the first-entry is_public test agrees with "some entry is
\* Public" on it, and generate_cache_authfile emits no "u *" identity line.
C28_PublicListsAreSingletons ==
    /\ \A k \in 1..Len(AllNamespaces(stashcache_by_vo_name)) :
          LET ns == AllNamespaces(stashcache_by_vo_name)[k]
          IN /\ ~HasPublicEntry(ns) \/ ns.authz_list = << [kind |-> "Public"] >>
             /\ Namespace_is_public(ns) <=> HasPublicEntry(ns)
    /\ call.op = "generate_cache_authfile" =>
          \A k \in 1..Len(result.text) :
              result.text[k].line = "identity" => result.text[k].id # <<"u", "*">>

\* a cache authfile generated from a snapshot in which a declaration
\* "DN, PUBLIC" was loaded as [Public], next to a protected namespace
C28_Witness ==
    /\ call.op = "generate_cache_authfile"
    /\ result.status = "return"
    /\ \E k \in 1..Len(result.text) : result.text[k].line = "identity"
    /\ \E k \in 1..Len(AllNamespaces(stashcache_by_vo_name)) :
          /\ AllNamespaces(stashcache_by_vo_name)[k].path = LIGO_PATH
          /\ AllNamespaces(stashcache_by_vo_name)[k].allowed_caches = <<"cache1">>
          /\ AllNamespaces(stashcache_by_vo_name)[k].authz_list = << [kind |-> "Public"] >>


\* the namespaces, public or not, passing both halves of the gate of the
\* target origin
OriginGatedAll == { k \in 1..Len(Namespaces) : OriginGate(Namespaces[k], Target) }

\* no principal of a gated non-public namespace carries a DN
NoPrincipalWithDn == \A k \in OriginGated : ResourceIds(Namespaces[k]) = {}

NamespaceItems == AllNamespaceItems(stashcache_by_vo_name)

\* declarations k and m are made by two different VOs for the same path
SamePathTwoVOs(k, m) ==
    /\ NamespaceItems[k].vo_name # NamespaceItems[m].vo_name
    /\ Namespaces[k].path = Namespaces[m].path

\* the identity lines of a text
IdentityLinesOf(text) == { text[q] : q \in { r \in 1..Len(text) : text[r].line = "identity" } }

\* id has an identity line in the returned text, and each of its identity
\* lines lists path exactly once
ReceivesOnce(id, path) ==
    /\ result.status = "return"
    /\ \E l \in IdentityLinesOf(result.text) : l.id = id
    /\ \A l \in IdentityLinesOf(result.text) :
          l.id = id => Cardinality({ n \in 1..Len(l.acl) : l.acl[n][1] = path }) = 1

\* the identities the cache authfile takes from declaration k
CacheIdsOf(k) ==
    IF HasPublicEntry(Namespaces[k]) THEN {}
    ELSE { get_authfile_id(a) : a \in Range(AuthfileEntries(Namespaces[k].authz_list)) }

\* the identities the origin authfile takes from declaration k
OriginIdsOf(k) ==
    IF HasPublicEntry(Namespaces[k])
    THEN (IF call.public_origin THEN { <<"u", "*">> } ELSE {})
    ELSE (IF call.public_origin THEN {} ELSE ResourceIds(Namespaces[k]))

\* the comments the cache authfile writes for declaration k alone
CacheCommentsOf(k) ==
    { Str(a) : a \in Range(AuthfileEntries(Namespaces[k].authz_list)) }
        \cup { <<"LIGO DNs unavailable">> }

\* the comments the origin authfile writes for declaration k alone
OriginCommentsOf(k) ==
    { <<"DN: ", r.DN>> : r \in { x \in Range(OriginAndCaches(Namespaces[k])) : x.DN # None } }
        \cup { NoCacheWarning(Namespaces[k]) }
        \cup { NoDnWarning(r, [Namespaces[k] EXCEPT !.vo_name = NamespaceItems[k].vo_name]) :
                 r \in Range(OriginAndCaches(Namespaces[k])) }

\* the dict of VOs iterated in the opposite order
ReversedVOs ==
    [i \in 1..Len(stashcache_by_vo_name) |->
        stashcache_by_vo_name[Len(stashcache_by_vo_name) + 1 - i]]

\* the same call of the cache authfile generator over the reversed dict
CacheResultReversed ==
    generate_cache_authfile(ReversedVOs, topology, call.ligo_dn_list, call.fqdn,
                            call.legacy, call.suppress_errors).result

\* the same call of the origin authfile generator over the reversed dict
OriginResultReversed ==
    generate_origin_authfile(ReversedVOs, topology, call.fqdn, call.suppress_errors,
                             call.public_origin)

\* two VOs declare one path and both declarations pass the gate of the cache
CacheCollision(k, m) ==
    /\ SamePathTwoVOs(k, m)
    /\ CacheGate(Namespaces[k], Target) /\ CacheGate(Namespaces[m], Target)

\* two VOs declare one path and both declarations pass the gate of the origin
OriginCollision(k, m) ==
    /\ SamePathTwoVOs(k, m)
    /\ OriginGate(Namespaces[k], Target) /\ OriginGate(Namespaces[m], Target)

\* C30: when two different VOs declare the same namespace path and both
\* declarations pass the gate of the target, generate_cache_authfile and
\* generate_origin_authfile merge them: every identity taken from either
\* declaration has an identity line listing the path exactly once, every
\* comment of the text is one written for a single declaration (none is about
\* the repeated path), and the identity lines are the same when the VOs are
\* iterated in the opposite order.
C30_SamePathMerged ==
    /\ CallForCache("generate_cache_authfile") =>
          \A k, m \in 1..Len(Namespaces) :
             CacheCollision(k, m) =>
                /\ \A id \in CacheIdsOf(k) \cup CacheIdsOf(m) :
                      ReceivesOnce(id, Namespaces[k].path)
                /\ result.status = "return" =>
                      /\ Comments \subseteq UNION { CacheCommentsOf(n) : n \in 1..Len(Namespaces) }
                      /\ CacheResultReversed.status = "return"
                      /\ IdentityLinesOf(CacheResultReversed.text) = IdentityLinesOf(result.text)
    /\ IsOriginAuthfileCall =>
          \A k, m \in 1..Len(Namespaces) :
             OriginCollision(k, m) =>
                /\ \A id \in OriginIdsOf(k) \cup OriginIdsOf(m) :
                      ReceivesOnce(id, Namespaces[k].path)
                /\ result.status = "return" =>
                      /\ Comments \subseteq UNION { OriginCommentsOf(n) : n \in 1..Len(Namespaces) }
                      /\ OriginResultReversed.status = "return"
                      /\ IdentityLinesOf(OriginResultReversed.text) = IdentityLinesOf(result.text)

\* a cache authfile where one identity is taken from both declarations of a
\* path and another from one of them only
C30_Witness ==
    /\ CallForCache("generate_cache_authfile")
    /\ result.status = "return"
    /\ \E k, m \in 1..Len(Namespaces) :
          /\ CacheCollision(k, m)
          /\ CacheIdsOf(k) \cap CacheIdsOf(m) # {}
          /\ CacheIdsOf(k) # CacheIdsOf(m)
          /\ \A id \in CacheIdsOf(k) \cup CacheIdsOf(m) : ReceivesOnce(id, Namespaces[k].path)

\* an origin authfile over two gated non-public declarations of one path
C30_WitnessOrigin ==
    /\ IsOriginAuthfileCall /\ ~call.public_origin
    /\ result.status = "return"
    /\ \E k, m \in 1..Len(Namespaces) :
          /\ OriginCollision(k, m)
          /\ OriginIdsOf(k) # {} /\ OriginIdsOf(m) # {}

====
